---- MODULE Spec2Model ----
(***************************************************************************)
(* Verification model of resk-caching.                                     *)
(*                                                                         *)
(*   Spec        the circuit breaker of src/resilience/circuit-breaker.ts: *)
(*               concurrent execute() calls, each racing its timeout       *)
(*               timer, and the wait of handleFailover.                    *)
(*   SpecManual  Spec with the manual open(), close() and reset().         *)
(*   SpecKV      the in-memory key-value store of src/cache/in-memory.ts.  *)
(*   SpecSqlite  the SQLite key-value store of src/cache/sqlite.ts.        *)
(*   SpecRedis   the Redis key-value store of src/cache/redis-bun.ts: two  *)
(*               concurrent client calls, each command sent to the server  *)
(*               being one step; SpecRedisLive adds that an awaited reply  *)
(*               arrives.                                                  *)
(*   SpecVec     the semantic cache of src/cache/vector-memory.ts with the *)
(*               timers its set() starts.  Similarities are compared in    *)
(*               exact arithmetic; the vectors of the model have integer   *)
(*               norms, for which the floating-point results are exact.    *)
(*   SpecSecure  the SecureCacheWrapper of src/cache/secure-wrapper.ts and *)
(*               src/security/encryption.ts over the SQLite store, with    *)
(*               restarts that change the configured key and with another  *)
(*               writer on the same table.                                 *)
(*   SpecVariants  the semantic cache holding entries with several         *)
(*               responses or none, which searchSimilar chooses among.     *)
(*   SpecManager the CircuitBreakerManager with two named breakers.        *)
(*   SpecQuery   the routes put and query of src/web/routes with two       *)
(*               requests in flight, the round-robin counter taken from    *)
(*               the Redis server or, once it is down, from the process.   *)
(*   SpecSelector  selectVariant of src/variants/selector.ts, called with  *)
(*               every input of the model and every draw of Math.random(). *)
(*   SpecFailover  the breaker under every failover configuration.         *)
(*   SpecWarm    cache warming of the PerformanceOptimizer; SpecWarmLive   *)
(*               adds that its timers fire.                                *)
(*   SpecRate    rateLimit (src/variants/selector.ts 75-110) with two       *)
(*               identities.                                               *)
(*                                                                         *)
(* An optional Date is a set: {} when undefined, {t} otherwise.            *)
(* lastSuccessTime is written by onSuccess and reset() and read only by    *)
(* getStats(); it is left out.                                             *)
(***************************************************************************)
EXTENDS Integers, Sequences, FiniteSets, TLC

(* ---------------- bounds of the model ---------------- *)
MaxRequests == 4       \* execute() calls started in one behaviour
MaxTime == 3           \* last clock value (ms)
MaxRetriesBound == 1   \* largest failoverConfig.maxRetries tried
MaxCtxRetries == 0     \* largest context.retries a caller passes
MaxManual == 1         \* manual open()/close()/reset() calls in one behaviour

(* ---------------- CircuitBreakerConfig / FailoverConfig values ---------------- *)
FailureThreshold == 2
SuccessThreshold == 2
ResetTimeoutMs == 2
MonitoringWindowMs == 2
TimeoutMs == 1
RetryDelayMs == 1

(* ---------------- bounds of the key-value store model ---------------- *)
MaxTtl == 1            \* largest ttlSeconds passed to set
TickMs == 500          \* the store's clock advances in steps of TickMs
MaxKvTime == 2000      \* last clock value of the store model (ms)
MaxRedisTime == 1000   \* last clock value of the Redis model (ms)
MaxRedisCalls == 3     \* get/set/clear calls on the Redis store in one behaviour
MaxVecTime == 1000     \* last clock value of the semantic cache model (ms)
MaxVecCalls == 3       \* calls on the semantic cache in one behaviour
MaxLimit == 2          \* largest limit passed to searchSimilar
MaxSecTime == 1000     \* last clock value of the SecureCacheWrapper model (ms)
MaxSecCalls == 3       \* calls on the SecureCacheWrapper, and writes of another writer, in one behaviour

(* ---------------- bounds of the variant selector model ---------------- *)
MaxVariants == 3       \* longest list of variants passed to selectVariant
MaxWeight == 2         \* largest weight passed to selectVariant
MaxCounter == 4        \* largest value a roundRobinIndexProvider gives
RandomDen == 4         \* Math.random() gives 0, 1/RandomDen, ..., (RandomDen - 1)/RandomDen

(* ---------------- bounds of the CircuitBreakerManager model ---------------- *)
MaxMgrRequests == 2    \* execute() calls, and failures, counted by a breaker of the manager

(* ---------------- bounds of the cache route model ---------------- *)
MaxQueries == 4        \* query requests in one behaviour

(* ---------------- bounds and configuration of the rate limiter model ---------------- *)
MaxRateTime == 4       \* last clock value of the rate limiter model (ms)
MaxRateRequests == 5   \* requests in one behaviour
RateWindowMs == 2      \* cfg.rateLimit.windowMs
RateMax == 2           \* cfg.rateLimit.max

(* ---------------- bounds of the cache warming model ---------------- *)
MaxWarmCalls == 3      \* calls of startCacheWarming in one behaviour
MaxBatch == 2          \* largest small batchSize of a request
LargeBatch == 500      \* the batchSize of the requests that leave maxEntries out
WarmEntries == 3       \* the maxEntries of the requests that give it

\* ttlSeconds * 1000
MsPerSecond == 1000

\* the callers of execute(): two calls can be in flight at once
Calls == {1, 2}

VARIABLES
  now,              \* Date.now()
  \* CircuitBreaker fields
  state, failures, successes, requests,
  lastFailureTime, nextAttemptTime,      \* optional Date: {} or {t}
  recentFailures,
  failoverEnabled, maxRetries,                         \* failoverConfig
  fallbackCache, degradedMode,                         \* failoverConfig
  fallbackResponse,                                    \* failoverConfig: it is set
  \* one record per execute() call slot
  pc,               \* "idle", "running", "settled", "failover", "done"
  ctxRetries,       \* execContext.retries
  timer,            \* the setTimeout of executeWithTimeout: {} or {deadline}
  promise,          \* the promise of executeWithTimeout
  opState,          \* the wrapped operation itself: "none", "running", "ok", "err"
  wakeAt,           \* the setTimeout of handleFailover: {} or {time}
  result,           \* how execute() ended for the caller
  \* history variables
  invoked,          \* times the wrapped operation was invoked for the call
  invokedIn,        \* circuit state when it was invoked
  nOk, nErr,        \* onSuccess / onFailure runs for the call
  timedOut,         \* the call's timeout timer has fired
  started,          \* execute() calls started so far
  failLog,          \* times of the failures in the failure history, never pruned
  hoSuccesses,      \* onSuccess runs since the circuit entered half-open
  manual,           \* manual open()/close()/reset() calls so far
  failedOps,        \* invoked operations whose executeWithTimeout promise rejected
  forgotten,        \* failures counted and then set to 0 by a return to closed,
                    \* close() or reset()
  last,             \* the step just taken
  logged,           \* what handleFailover logged in the step just taken
  \* the in-memory key-value store (src/cache/in-memory.ts)
  kvNow,            \* Date.now()
  memStore,         \* InMemoryCache.store: key -> {} or {[value, expiresAt]}
  memGot,           \* what the last get returned
  memLastSet,       \* history: key -> the latest set no clear followed, {} or {[value, at, ttl]}
  kvLast,           \* the store operation just performed
  \* the SQLite key-value store (src/cache/sqlite.ts)
  sqlRows,          \* table kv: key -> {} or {[value, expiresAt]}, value a JSON text
  \* the Redis key-value store (src/cache/redis-bun.ts)
  redisDb,          \* the server's keyspace: key -> {} or {[value, expireAt]}
  rpc,              \* per client call: where it stands (at) and its locals
  rDone,            \* history: per client and key, its latest finished set, {} or {[value, ttl, exp]}
  rDirty,           \* history: per client, a SET ran on the server while its clear() was running
  rCalls,           \* history: calls started so far
  \* the semantic cache (src/cache/vector-memory.ts); its clock is kvNow
  vecEntries,       \* Map entries, in insertion order: <<key, entry>>, ...
  vecEmbeddings,    \* Map embeddings, in insertion order: <<key, vector>>, ...
  vecTimers,        \* pending setTimeout callbacks of set(): [key, due]
  vecOut,           \* the call just made and what it returned
  vecLastSet,       \* history: key -> the latest write of an entry no clear followed
  vecLatest,        \* history: normalized query -> the latest storeLLMResponse that nothing
                    \*          deleted since, and the entry it replaced
  vecViaStore,      \* history: every entry held was put by storeLLMResponse
  vecCalls,         \* history: calls made so far
  vecServed,        \* history: key -> the selected_response of each search that returned
                    \*          the entry under the key, an entry with a variant_strategy,
                    \*          since the entry was written
  \* the SecureCacheWrapper over the SQLite store; its clock is kvNow
  secKey,           \* cfg.security.encryption.cacheKeyBase64 as loaded: {} or {key}
  secOut,           \* the call just made and what it returned
  secLastSet,       \* history: key -> the latest set through the wrapper that no clear
                    \*          and no other writer followed
  secCalls,         \* history: calls made so far
  \* selectVariant (src/variants/selector.ts) and the counter of its caller
  selIn,            \* the call just made: its input, the draw of Math.random(), what the
                    \* roundRobinIndexProvider gave
  selOut,           \* what the call returned
  selTrail,         \* history: the picks of the latest round-robin calls in a row
  \* the CircuitBreakerManager (src/resilience/circuit-breaker.ts)
  mgrBreakers,      \* Map breakers: name -> {} or {[state, failures, requests]}
  mgrHealth,        \* what the step just taken returned, when it is getHealthStatus
  mgrLast,          \* the step just taken
  \* the routes put and query (src/web/routes)
  qryStore,         \* what selectCache().get returns: key -> {} or {value}
  qryRedis,         \* the counters of the Redis server: key -> the value of `<key>:rr`
  qryRedisUp,       \* the Redis server answers
  qryRr,            \* globalThis.__rr, 0 when unset
  qryCall,          \* per request in flight: where it stands and its locals
  qryOut,           \* the response just sent
  qryServed,        \* history: key -> the indexes served for the value now stored, with
                    \*          the counter now in use, since the last answer made from a
                    \*          value put before it; the last MaxVariants of them
  qryCount,         \* history: queries started so far
  \* rateLimit (src/variants/selector.ts 75-110)
  rateNow,          \* Date.now()
  buckets,          \* Map buckets: key -> {} or {[count, resetAt]}
  rateOut,          \* the request just made and what rateLimit returned
  admitted,         \* history: key -> the times of the requests admitted in the last
                    \*          RateWindowMs milliseconds
  rateRequests,     \* history: requests made so far
  \* PerformanceOptimizer (cache warming)
  isWarming,        \* the in-progress flag
  warmingProgress,  \* the WarmingProgress of the latest accepted call: {} or {progress}
  warmStrategy,     \* the strategy of the warming in progress: {} or {strategy}
  warmI,            \* the loop variable i of warmPopularQueries
  warmPc,           \* where the warming in progress waits
  warmOut,          \* what the latest startCacheWarming call did
  warmCalls         \* history: calls of startCacheWarming so far

cbVars == <<state, failures, successes, requests, lastFailureTime, nextAttemptTime,
            recentFailures>>
cfgVars == <<failoverEnabled, maxRetries, fallbackCache, fallbackResponse, degradedMode>>
callVars == <<pc, ctxRetries, timer, promise, opState, wakeAt, result>>
histVars == <<invoked, invokedIn, nOk, nErr, timedOut, started, failLog, hoSuccesses,
              manual, failedOps, forgotten>>
breakerVars == <<now, cbVars, cfgVars, callVars, histVars, last, logged>>
kvVars == <<kvNow, memStore, memGot, memLastSet, kvLast>>
sqlVars == <<sqlRows>>
\* what the breaker's steps leave alone, and what the stores' steps leave alone
redisVars == <<redisDb, rpc, rDone, rDirty, rCalls>>
vecVars == <<vecEntries, vecEmbeddings, vecTimers, vecOut, vecLastSet, vecLatest, vecViaStore,
             vecCalls, vecServed>>
secVars == <<secKey, secOut, secLastSet, secCalls>>
selVars == <<selIn, selOut, selTrail>>
mgrVars == <<mgrBreakers, mgrHealth, mgrLast>>
qryVars == <<qryStore, qryRedis, qryRedisUp, qryRr, qryCall, qryOut, qryServed, qryCount>>
rateVars == <<rateNow, buckets, rateOut, admitted, rateRequests>>
warmVars == <<isWarming, warmingProgress, warmStrategy, warmI, warmPc, warmOut, warmCalls>>
outsideBreaker == <<kvVars, sqlVars, redisVars, vecVars, secVars, selVars, mgrVars, qryVars,
                    rateVars, warmVars>>
outsideStores == <<breakerVars, vecVars, secVars, selVars, mgrVars, qryVars, rateVars, warmVars>>
outsideKV == <<sqlVars, redisVars, outsideStores>>
outsideVec == <<breakerVars, memStore, memGot, memLastSet, kvLast, sqlVars, redisVars, secVars,
               selVars, mgrVars, qryVars, rateVars, warmVars>>
outsideSec == <<breakerVars, memStore, memGot, memLastSet, redisVars, vecVars, selVars,
               mgrVars, qryVars, rateVars, warmVars>>
outsideSel == <<breakerVars, kvVars, sqlVars, redisVars, vecVars, secVars, mgrVars, qryVars,
                rateVars, warmVars>>
outsideMgr == <<breakerVars, kvVars, sqlVars, redisVars, vecVars, secVars, selVars, qryVars,
                rateVars, warmVars>>
outsideRate == <<breakerVars, kvVars, sqlVars, redisVars, vecVars, secVars, selVars, mgrVars,
                 qryVars, warmVars>>
outsideQuery == <<breakerVars, kvVars, sqlVars, redisVars, vecVars, secVars, selVars, mgrVars,
                  rateVars, warmVars>>
outsideWarm == <<breakerVars, kvVars, sqlVars, redisVars, vecVars, secVars, selVars, mgrVars,
                 qryVars, rateVars>>
vars == <<breakerVars, kvVars, sqlVars, redisVars, vecVars, secVars, selVars, mgrVars, qryVars,
          rateVars, warmVars>>

Step(op, c, st) == [op |-> op, call |-> c, from |-> st]

(* ---------------- pure helpers of the breaker ---------------- *)

\* mutants of WindowFilter: the list is never pruned; the cutoff is the
\* present instant, so the failure just pushed is dropped as well
WindowFilterNoPrune(list, t) == list
WindowFilterCutoffNow(list, t) == SelectSeq(list, LAMBDA d : d > t)

\* recentFailures.filter(date => date > cutoff), cutoff = now - monitoringWindowMs
WindowFilter(list, t) == SelectSeq(list, LAMBDA d : d > t - MonitoringWindowMs)

\* mutants of canAttemptReset: the time is not compared; the comparison is strict
canAttemptResetNoTimeCheck == nextAttemptTime # {}
canAttemptResetStrict == \E t \in nextAttemptTime : now > t

\* canAttemptReset(): nextAttemptTime ? new Date() >= nextAttemptTime : false
canAttemptReset == \E t \in nextAttemptTime : now >= t

\* mutant of StateAfterFailure: a half-open failure reopens only at the threshold
StateAfterFailureThresholdOnly(st, window) ==
  IF st \in {"closed", "half-open"} /\ Len(window) >= FailureThreshold THEN "open" ELSE st

\* the state after onFailure, given the pruned window (lines 180-191)
StateAfterFailure(st, window) ==
  IF st = "closed" /\ Len(window) >= FailureThreshold THEN "open"
  ELSE IF st = "half-open" THEN "open"
  ELSE st

\* mutant of StateAfterSuccess: the threshold has to be exceeded
StateAfterSuccessStrict(st, succ) ==
  IF st = "half-open"
    THEN (IF succ > SuccessThreshold THEN "closed" ELSE "half-open")
    ELSE IF st = "open" THEN "closed" ELSE st

\* the state after onSuccess, given the incremented success counter (lines 146-158)
StateAfterSuccess(st, succ) ==
  IF st = "half-open"
    THEN (IF succ >= SuccessThreshold THEN "closed" ELSE "half-open")
    ELSE IF st = "open" THEN "closed" ELSE st

\* handleFailover waits retryDelayMs when enabled and retries remain
FailoverWaits(r) == failoverEnabled /\ r < maxRetries

\* what handleFailover logs when it does not wait: the fallbacks configured,
\* which it leaves to the calling code
handleFailover(r) ==
  IF ~failoverEnabled \/ FailoverWaits(r) THEN {}
  ELSE {m \in {"cache", "response", "degraded"} :
          \/ m = "cache" /\ fallbackCache
          \/ m = "response" /\ fallbackResponse
          \/ m = "degraded" /\ degradedMode}

\* mutant of rethrow: execute() resolves with the fallback response when
\* handleFailover reaches it
rethrowUnlessFallback(error, r) ==
  IF "response" \in handleFailover(r) THEN "fallbackResponse" ELSE error

\* await this.handleFailover(error, context); throw error: handleFailover
\* returns nothing and the error goes to the caller
rethrow(error, r) == error

\* mutant of Settle: a later resolve()/reject() settles the promise again
SettleAgain(p, outcome) == outcome

\* a promise settles once: later resolve()/reject() calls are ignored
Settle(p, outcome) == IF p = "pending" THEN outcome ELSE p

(***************************************************************************)
(* The in-memory key-value store                                           *)
(***************************************************************************)
Keys == {"k1", "k2"}
Values == {"a", "b"}
\* ttlSeconds: undefined ({}) or a number, a negative one included
Ttls == {{}} \cup {{n} : n \in -1..MaxTtl}

\* mutant of Expired: the entry is still served at its expiry instant
ExpiredStrict(entry, t) == \E e \in entry.expiresAt : e < t

\* entry.expiresAt !== null && entry.expiresAt <= Date.now()
Expired(entry, t) == \E e \in entry.expiresAt : e <= t

\* typeof ttlSeconds === "number" ? Date.now() + ttlSeconds * 1000 : null
ExpiresAt(ttl, t) == {t + n * MsPerSecond : n \in ttl}

InitKV ==
  /\ kvNow = 0
  /\ memStore = [k \in Keys |-> {}]
  /\ memGot = "none"
  /\ memLastSet = [k \in Keys |-> {}]
  /\ kvLast = [op |-> "init", key |-> "-"]

memGet(k) ==
  /\ IF memStore[k] = {}
       THEN memGot' = "null" /\ UNCHANGED memStore
       ELSE LET entry == CHOOSE e \in memStore[k] : TRUE IN
            IF Expired(entry, kvNow)
              THEN memGot' = "null" /\ memStore' = [memStore EXCEPT ![k] = {}]
              ELSE memGot' = entry.value /\ UNCHANGED memStore
  /\ kvLast' = [op |-> "get", key |-> k]
  /\ UNCHANGED <<kvNow, memLastSet, outsideKV>>

memSet(k, v, ttl) ==
  /\ memStore' = [memStore EXCEPT ![k] = {[value |-> v, expiresAt |-> ExpiresAt(ttl, kvNow)]}]
  /\ memLastSet' = [memLastSet EXCEPT ![k] = {[value |-> v, at |-> kvNow, ttl |-> ttl]}]
  /\ kvLast' = [op |-> "set", key |-> k]
  /\ UNCHANGED <<kvNow, memGot, outsideKV>>

memClear ==
  /\ memStore' = [k \in Keys |-> {}]
  /\ memLastSet' = [k \in Keys |-> {}]
  /\ kvLast' = [op |-> "clear", key |-> "-"]
  /\ UNCHANGED <<kvNow, memGot, outsideKV>>

kvTick ==
  /\ kvNow < MaxKvTime
  /\ kvNow' = kvNow + TickMs
  /\ kvLast' = [op |-> "tick", key |-> "-"]
  /\ UNCHANGED <<memStore, memGot, memLastSet, outsideKV>>

NextKV ==
  \/ \E k \in Keys : memGet(k)
  \/ \E k \in Keys, v \in Values, ttl \in Ttls : memSet(k, v, ttl)
  \/ memClear
  \/ kvTick

(***************************************************************************)
(* The SQLite key-value store                                              *)
(***************************************************************************)
\* A text is [form, of]: the JSON text of the value of ("json"), the base64
\* text of packed bytes ("base64"), or a text that is neither ("garbage").
\* A base64 text is made of letters, digits, + and /; when it happens to be
\* made of digits it reads as a JSON number.
JSONNumber == [type |-> "number", str |-> "1", members |-> {}]

\* JSON.stringify(value): the text kept in column value
JSONstringify(v) == [form |-> "json", of |-> v]
\* JSON.parse(text) throws on a text that is not JSON
JSONparses(text) == text.form = "json" \/ (text.form = "base64" /\ text.of.numeric)
JSONparse(text) == IF text.form = "json" THEN text.of ELSE JSONNumber

\* row.expiresAt !== null && row.expiresAt < Date.now()
sqlExpired(row, t) == \E e \in row.expiresAt : e < t

InitSql == sqlRows = [k \in Keys |-> {}]

\* SqliteCache.get: the row that is not expired, and what get returns for
\* it; {} is null
sqlLive(k) == {row \in sqlRows[k] : ~sqlExpired(row, kvNow)}
sqlValue(k) == {JSONparse(row.value) : row \in {r \in sqlLive(k) : JSONparses(r.value)}}

\* SqliteCache.get: SELECT, delete an expired row, parse the text
sqlGet(k) ==
  /\ sqlRows' = [sqlRows EXCEPT ![k] = sqlLive(k)]
  /\ memGot' = IF sqlValue(k) = {} THEN "null" ELSE CHOOSE v \in sqlValue(k) : TRUE
  /\ kvLast' = [op |-> "get", key |-> k]
  /\ UNCHANGED <<kvNow, memStore, memLastSet, redisVars, outsideStores>>

\* SqliteCache.set: INSERT ... ON CONFLICT(key) DO UPDATE SET value, expiresAt
sqlSet(k, v, ttl) ==
  /\ sqlRows' = [sqlRows EXCEPT ![k] =
                   {[value |-> JSONstringify(v), expiresAt |-> ExpiresAt(ttl, kvNow)]}]
  /\ memLastSet' = [memLastSet EXCEPT ![k] = {[value |-> v, at |-> kvNow, ttl |-> ttl]}]
  /\ kvLast' = [op |-> "set", key |-> k]
  /\ UNCHANGED <<kvNow, memStore, memGot, redisVars, outsideStores>>

\* SqliteCache.clear: DELETE FROM kv
sqlClear ==
  /\ sqlRows' = [k \in Keys |-> {}]
  /\ memLastSet' = [k \in Keys |-> {}]
  /\ kvLast' = [op |-> "clear", key |-> "-"]
  /\ UNCHANGED <<kvNow, memStore, memGot, redisVars, outsideStores>>

NextSqlite ==
  \/ \E k \in Keys : sqlGet(k)
  \/ \E k \in Keys, v \in Values, ttl \in Ttls : sqlSet(k, v, ttl)
  \/ sqlClear
  \/ kvTick


(***************************************************************************)
(* The Redis key-value store                                               *)
(*                                                                         *)
(* A key of the server is <<prefix, rest>>.  The server runs one command   *)
(* at a time; a key whose expiry time is reached is gone.  SET drops the   *)
(* expiry of the key, EXPIRE sets it on a key that exists, SCAN walks the  *)
(* keyspace in ScanOrder, some of it at each call, and answers cursor 0    *)
(* with the last part.                                                     *)
(***************************************************************************)
Clients == {1, 2}
RedisTtls == {{}} \cup {{n} : n \in 0..MaxTtl}
KEY_PREFIX == "rc:"
ForeignKey == <<"app:", "x">>
ForeignEntry == {[value |-> [form |-> "raw", of |-> "x"], expireAt |-> {}]}

\* key.startsWith("rc:") ? key : `rc:${key}`
withPrefix(key) == <<KEY_PREFIX, key>>

ScanOrder == <<withPrefix("k1"), ForeignKey, withPrefix("k2")>>
RedisKeyspace == {ScanOrder[i] : i \in 1..Len(ScanOrder)}

\* mutant of scanMatch: SCAN without MATCH
scanMatchAll(key) == TRUE

\* MATCH rc:*
scanMatch(key) == key[1] = KEY_PREFIX

\* typeof ttlSeconds === "number" && ttlSeconds > 0
sendsExpire(ttl) == \E n \in ttl : n > 0

\* while (cursor !== "0")
scanAgain(cursor) == cursor # 0

\* gone is history: the keys this clear() has deleted so far
IdleCall ==
  [at |-> "idle", key |-> "-", value |-> "-", ttl |-> {}, cursor |-> 0, batch |-> {}, gone |-> 0]

InitRedis ==
  /\ redisDb = [key \in RedisKeyspace |-> IF key = ForeignKey THEN ForeignEntry ELSE {}]
  /\ rpc = [p \in Clients |-> IdleCall]
  /\ rDone = [p \in Clients |-> [k \in Keys |-> {}]]
  /\ rDirty = [p \in Clients |-> FALSE]
  /\ rCalls = 0

\* RedisBunCache.get: GET, then JSON.parse, null when it throws
redisGet(p, k) ==
  /\ rpc[p].at = "idle"
  /\ rCalls < MaxRedisCalls
  /\ rCalls' = rCalls + 1
  /\ LET raw == redisDb[withPrefix(k)] IN
       memGot' = IF raw = {} THEN "null"
                 ELSE LET text == (CHOOSE e \in raw : TRUE).value IN
                      IF JSONparses(text) THEN JSONparse(text) ELSE "null"
  /\ kvLast' = [op |-> "get", key |-> k]
  /\ UNCHANGED <<kvNow, memStore, memLastSet, sqlVars, redisDb, rpc, rDone, rDirty, outsideStores>>

\* RedisBunCache.set up to its second await: SET k payload
redisSet(p, k, v, ttl) ==
  /\ rpc[p].at = "idle"
  /\ rCalls < MaxRedisCalls
  /\ rCalls' = rCalls + 1
  /\ redisDb' = [redisDb EXCEPT ![withPrefix(k)] =
                   {[value |-> JSONstringify(v), expireAt |-> {}]}]
  /\ rDirty' = [q \in Clients |-> rDirty[q] \/ rpc[q].at \in {"scan", "del"}]
  /\ IF sendsExpire(ttl)
       THEN /\ rpc' = [rpc EXCEPT ![p] = [IdleCall EXCEPT !.at = "expire", !.key = k,
                                                          !.value = v, !.ttl = ttl]]
            /\ kvLast' = [op |-> "SET", key |-> k]
            /\ UNCHANGED rDone
       ELSE /\ rDone' = [rDone EXCEPT ![p][k] = {[value |-> v, ttl |-> ttl, exp |-> {}]}]
            /\ kvLast' = [op |-> "set", key |-> k]
            /\ UNCHANGED rpc
  /\ UNCHANGED <<kvNow, memStore, memGot, memLastSet, sqlVars, outsideStores>>

\* the rest of RedisBunCache.set: EXPIRE k ttlSeconds
redisExpire(p) ==
  /\ rpc[p].at = "expire"
  /\ LET key == withPrefix(rpc[p].key)
         exp == {kvNow + n * MsPerSecond : n \in rpc[p].ttl}
     IN /\ redisDb' = [redisDb EXCEPT ![key] = {[e EXCEPT !.expireAt = exp] : e \in @}]
        /\ rDone' = [rDone EXCEPT ![p][rpc[p].key] =
                         {[value |-> rpc[p].value, ttl |-> rpc[p].ttl, exp |-> exp]}]
  /\ rpc' = [rpc EXCEPT ![p] = IdleCall]
  /\ kvLast' = [op |-> "set", key |-> rpc[p].key]
  /\ UNCHANGED <<kvNow, memStore, memGot, memLastSet, sqlVars, rDirty, rCalls, outsideStores>>

\* RedisBunCache.clear up to its first SCAN: cursor = "0"
redisClear(p) ==
  /\ rpc[p].at = "idle"
  /\ rCalls < MaxRedisCalls
  /\ rCalls' = rCalls + 1
  /\ rpc' = [rpc EXCEPT ![p] = [IdleCall EXCEPT !.at = "scan"]]
  /\ rDirty' = [rDirty EXCEPT ![p] = FALSE]
  /\ kvLast' = [op |-> "clear", key |-> "-"]
  /\ UNCHANGED <<kvNow, memStore, memGot, memLastSet, sqlVars, redisDb, rDone, outsideStores>>

\* what clear() does with the cursor it holds once the keys of the reply are
\* dealt with: the loop goes on or clear() returns
AfterBatch(p, cursor, gone) ==
  IF scanAgain(cursor)
    THEN /\ rpc' = [rpc EXCEPT ![p] = [IdleCall EXCEPT !.at = "scan", !.cursor = cursor,
                                                       !.gone = gone]]
         /\ kvLast' = [op |-> "scanned", key |-> "-"]
    ELSE /\ rpc' = [rpc EXCEPT ![p] = IdleCall]
         /\ kvLast' = [op |-> "cleared", key |-> "-", by |-> p, gone |-> gone]

\* SCAN cursor MATCH rc:* COUNT 1000: the server looks at the next n keys of
\* its keyspace and answers the next cursor and those that match
redisScan(p) ==
  /\ rpc[p].at = "scan"
  /\ \E n \in 1..(Len(ScanOrder) - rpc[p].cursor) :
       LET upto == rpc[p].cursor + n
           cursor == IF upto = Len(ScanOrder) THEN 0 ELSE upto
           keys == {key \in {ScanOrder[i] : i \in (rpc[p].cursor + 1)..upto} :
                      scanMatch(key) /\ redisDb[key] # {}}
       IN IF keys # {}
            THEN /\ rpc' = [rpc EXCEPT ![p] = [IdleCall EXCEPT !.at = "del", !.cursor = cursor,
                                                               !.batch = keys,
                                                               !.gone = rpc[p].gone]]
                 /\ kvLast' = [op |-> "SCAN", key |-> "-"]
            ELSE AfterBatch(p, cursor, rpc[p].gone)
  /\ UNCHANGED <<kvNow, memStore, memGot, memLastSet, sqlVars, redisDb, rDone, rDirty,
                 rCalls, outsideStores>>

\* DEL ...keys
redisDel(p) ==
  /\ rpc[p].at = "del"
  /\ redisDb' = [key \in RedisKeyspace |-> IF key \in rpc[p].batch THEN {} ELSE redisDb[key]]
  /\ rDone' = [q \in Clients |->
                 [k \in Keys |-> IF withPrefix(k) \in rpc[p].batch THEN {} ELSE rDone[q][k]]]
  /\ AfterBatch(p, rpc[p].cursor,
                rpc[p].gone + Cardinality({key \in rpc[p].batch : redisDb[key] # {}}))
  /\ UNCHANGED <<kvNow, memStore, memGot, memLastSet, sqlVars, rDirty, rCalls, outsideStores>>

\* a second passes; the server drops the keys whose expiry time is reached
redisTick ==
  /\ kvNow < MaxRedisTime
  /\ kvNow' = kvNow + MsPerSecond
  /\ redisDb' = [key \in RedisKeyspace |->
                   {e \in redisDb[key] : \A x \in e.expireAt : kvNow' < x}]
  /\ kvLast' = [op |-> "tick", key |-> "-"]
  /\ UNCHANGED <<memStore, memGot, memLastSet, sqlVars, rpc, rDone, rDirty, rCalls, outsideStores>>

NextRedis ==
  \/ \E p \in Clients, k \in Keys : redisGet(p, k)
  \/ \E p \in Clients, k \in Keys, v \in Values, ttl \in RedisTtls : redisSet(p, k, v, ttl)
  \/ \E p \in Clients : redisExpire(p)
  \/ \E p \in Clients : redisClear(p)
  \/ \E p \in Clients : redisScan(p)
  \/ \E p \in Clients : redisDel(p)
  \/ redisTick

(***************************************************************************)
(* The variant selector (src/variants/selector.ts)                         *)
(*                                                                         *)
(* An unsigned number of 32 bits is <<high, low>>, its two halves of 16    *)
(* bits.  Math.random() is a draw rnd in 0..RandomDen-1, the number        *)
(* rnd / RandomDen.  An index is the JavaScript index, counted from 0.     *)
(***************************************************************************)
\* 2^16
Half == 65536
\* the FNV offset basis 0x811c9dc5
FnvOffset == <<33052, 40389>>
\* the FNV prime 0x01000193 is FnvPrimeHigh * 2^16 + FnvPrimeLow
FnvPrimeHigh == 256
FnvPrimeLow == 403
\* m * 0x01000193 >= 2^53 from m = Exact53 on, >= 2^54 from m = Exact54 on: a
\* double keeps 53 bits, the product is rounded to a multiple of 2 or of 4
Exact53 == 536858017
Exact54 == 1073716033

VariantIds == <<"a", "b", "c", "d", "e">>
VariantLists == {SubSeq(VariantIds, 1, n) : n \in 0..MaxVariants}
Strategies == {{}, {"random"}, {"round-robin"}, {"deterministic"}, {"weighted"}, {"other"}}
\* a weight is {} when it is no number (NaN, undefined), {k} otherwise
WeightValues == {{}} \cup {{k} : k \in -1..MaxWeight}
\* the lists of weights passed with n candidates: every list of n weights, and
\* lists of another length
WeightLists(n) == [1..n -> WeightValues] \cup {[i \in 1..(n + 1) |-> {0}], <<{2}>>}
NoSeed == [type |-> "undefined", str |-> <<>>, num |-> 0]
StringSeed(str) == [type |-> "string", str |-> str, num |-> 0]
NumberSeed(num) == [type |-> "number", str |-> <<>>, num |-> num]
Seeds == {NoSeed, StringSeed(<<>>), StringSeed(<<"s", "1">>), StringSeed(<<"1", "2">>),
          NumberSeed(12), NumberSeed(0)}

charCodeAt(ch) ==
  CASE ch = " " -> 32 [] ch = "0" -> 48 [] ch = "1" -> 49 [] ch = "2" -> 50
    [] ch = "H" -> 72 [] ch = "h" -> 104 [] ch = "i" -> 105 [] ch = "o" -> 111
    [] ch = "s" -> 115 [] ch = "y" -> 121

\* a ^ b for a, b < 2^16
RECURSIVE xor(_, _)
xor(a, b) ==
  IF a = 0 THEN b
  ELSE IF b = 0 THEN a
  ELSE ((a + b) % 2) + 2 * xor(a \div 2, b \div 2)

\* 2^32 - x modulo 2^32
negate(x) ==
  IF x[2] = 0 THEN <<(Half - x[1]) % Half, 0>> ELSE <<Half - 1 - x[1], Half - x[2]>>

\* (x + d) modulo 2^32, for 0 <= d < 2^16
plus(x, d) == <<(x[1] + (x[2] + d) \div Half) % Half, (x[2] + d) % Half>>

\* the low 32 bits of m * 0x01000193, the product taken exactly
timesPrime(m) ==
  <<((m[2] * FnvPrimeLow) \div Half + m[1] * FnvPrimeLow + m[2] * FnvPrimeHigh) % Half,
    (m[2] * FnvPrimeLow) % Half>>

\* the multiple of 2 or 4 a double rounds the product of m to, ties to even
unitOfProduct(m) ==
  IF m[1] >= Half \div 2 \/ m[1] * Half + m[2] >= Exact54 THEN 4
  ELSE IF m[1] * Half + m[2] >= Exact53 THEN 2
  ELSE 1

\* (m * 0x01000193) >>> 0 for a magnitude m <= 2^31: the double product, then
\* its low 32 bits
roundedProduct(m) ==
  LET exact == timesPrime(m)
      unit == unitOfProduct(m)
      rest == exact[2] % unit
      up == 2 * rest > unit \/ (2 * rest = unit /\ (exact[2] \div unit) % 2 = 1)
      down == <<exact[1], exact[2] - rest>>
  IN IF up THEN plus(down, unit) ELSE down

\* one round of the loop of hashToInt: h ^= code gives a signed number of 32
\* bits, h = (h * 0x01000193) >>> 0
hashStep(h, code) ==
  LET x == <<h[1], xor(h[2], code)>>
  IN IF x[1] >= Half \div 2 THEN negate(roundedProduct(negate(x))) ELSE roundedProduct(x)

RECURSIVE hashFrom(_, _)
hashFrom(h, input) ==
  IF input = <<>> THEN h ELSE hashFrom(hashStep(h, charCodeAt(Head(input))), Tail(input))

\* hashToInt
hashToInt(input) == hashFrom(FnvOffset, input)

\* the decimal digits of a number >= 0
RECURSIVE digits(_)
digits(num) ==
  LET digit == <<"0", "1", "2", "3", "4", "5", "6", "7", "8", "9">>[(num % 10) + 1]
  IN IF num < 10 THEN <<digit>> ELSE Append(digits(num \div 10), digit)

\* String(input.seed ?? "")
seedString(seed) ==
  CASE seed.type = "undefined" -> <<>>
    [] seed.type = "string" -> seed.str
    [] seed.type = "number" -> digits(seed.num)

\* h % n for a number h of 32 bits
modulo(h, n) == ((h[1] % n) * (Half % n) + h[2]) % n

\* mutant of remainder: the counter counts two calls as one
remainderOfHalf(i, n) == (i \div 2) % n

\* i % n of JavaScript: the sign of i
remainder(i, n) == IF i >= 0 THEN i % n ELSE -((-i) % n)

\* mutant of floorRandom: Math.round(Math.random() * n)
roundRandom(rnd, n) == (2 * rnd * n + RandomDen) \div (2 * RandomDen)

\* Math.floor(Math.random() * n)
floorRandom(rnd, n) == (rnd * n) \div RandomDen

\* mutant of weightOf: a weight that is not positive counts 1
weightOfAtLeastOne(w) == IF w = {} \/ \E k \in w : k <= 0 THEN 1 ELSE CHOOSE k \in w : TRUE

\* Math.max(0, Number(w) || 0)
weightOf(w) == IF w = {} \/ \E k \in w : k <= 0 THEN 0 ELSE CHOOSE k \in w : TRUE

\* input.weights && input.weights.length === n ? input.weights : new Array(n).fill(1)
weightsUsed(weights, n) ==
  IF \E list \in weights : Len(list) = n THEN CHOOSE list \in weights : TRUE
  ELSE [i \in 1..n |-> {1}]

RECURSIVE totalWeight(_)
totalWeight(weights) ==
  IF weights = <<>> THEN 0 ELSE weightOf(Head(weights)) + totalWeight(Tail(weights))

\* the last loop of the weighted strategy from candidate i on; r is r * RandomDen
RECURSIVE walk(_, _, _)
walk(i, r, weights) ==
  IF i >= Len(weights) THEN Len(weights) - 1
  ELSE IF r - weightOf(weights[i + 1]) * RandomDen <= 0 THEN i
  ELSE walk(i + 1, r - weightOf(weights[i + 1]) * RandomDen, weights)

NoSelection == [null |-> TRUE, index |-> 0, variant |-> {}]
\* { variant: variants[idx]!, index: idx }
Selection(variants, idx) ==
  [null |-> FALSE, index |-> idx,
   variant |-> IF idx + 1 \in 1..Len(variants) THEN {variants[idx + 1]} ELSE {}]

\* selectVariant; rnd is what Math.random() gives, provided what the
\* roundRobinIndexProvider returns: {} without a provider or when it is no
\* number, {v} otherwise
selectVariant(input, rnd, provided) ==
  LET variants == input.variants
      n == Len(variants)
      strategy == IF input.strategy = {} THEN "random" ELSE CHOOSE s \in input.strategy : TRUE
      weights == weightsUsed(input.weights, n)
      total == totalWeight(weights)
  IN IF n = 0 THEN NoSelection
     ELSE CASE strategy = "random" -> Selection(variants, floorRandom(rnd, n))
            [] strategy = "deterministic" ->
                 Selection(variants, modulo(hashToInt(seedString(input.seed)), n))
            [] strategy = "round-robin" ->
                 Selection(variants,
                           remainder(IF provided = {} THEN 0 ELSE CHOOSE v \in provided : TRUE, n))
            [] strategy = "weighted" ->
                 IF total <= 0 THEN Selection(variants, floorRandom(rnd, n))
                 ELSE Selection(variants, walk(0, rnd * total, weights))
            [] OTHER -> Selection(variants, floorRandom(rnd, n))

\* the inputs of the model: weights with the weighted strategy, seeds with the
\* deterministic one
SelInputs ==
  UNION {{[strategy |-> {"weighted"}, variants |-> v, weights |-> w, seed |-> NoSeed] :
            w \in {{}} \cup {{list} : list \in WeightLists(Len(v))}} : v \in VariantLists}
  \cup {[strategy |-> {"deterministic"}, variants |-> v, weights |-> {}, seed |-> d] :
          v \in VariantLists, d \in Seeds}
  \cup {[strategy |-> s, variants |-> v, weights |-> {}, seed |-> NoSeed] :
          s \in Strategies, v \in VariantLists}
NoCall == [input |-> [strategy |-> {}, variants |-> <<>>, weights |-> {}, seed |-> NoSeed],
           rnd |-> 0, provided |-> {}]
NoTrail == [variants |-> <<>>, last |-> 0, picks |-> <<>>]

InitSel ==
  /\ selIn = NoCall
  /\ selOut = NoSelection
  /\ selTrail = NoTrail

\* what the roundRobinIndexProvider can give a call: nothing when the call
\* does not reach `await provider()`, has no provider or is given no number,
\* else a counter value
Provided(input) ==
  IF input.strategy = {"round-robin"} /\ Len(input.variants) > 0
    THEN {{}} \cup {{c} : c \in 0..MaxCounter}
    ELSE {{}}

\* the picks of the latest round-robin calls in a row that were given
\* consecutive counter values over one list of candidates, the last
\* MaxVariants of them
trailAfter(input, provided, index) ==
  IF provided = {} THEN NoTrail
  ELSE LET c == CHOOSE v \in provided : TRUE
           picks == IF selTrail.variants = input.variants /\ selTrail.picks # <<>>
                       /\ c = selTrail.last + 1
                      THEN Append(selTrail.picks, index)
                      ELSE <<index>>
       IN [variants |-> input.variants, last |-> c,
           picks |-> IF Len(picks) > MaxVariants THEN Tail(picks) ELSE picks]

\* a call of selectVariant
selectVariantCall(input, rnd, provided) ==
  /\ selIn' = [input |-> input, rnd |-> rnd, provided |-> provided]
  /\ selOut' = selectVariant(input, rnd, provided)
  /\ selTrail' = trailAfter(input, provided, selectVariant(input, rnd, provided).index)
  /\ UNCHANGED outsideSel

NextSelector ==
  \E input \in SelInputs, rnd \in 0..(RandomDen - 1) :
    \E provided \in Provided(input) : selectVariantCall(input, rnd, provided)

(***************************************************************************)
(* The CircuitBreakerManager                                               *)
(*                                                                         *)
(* A breaker of the manager is the part of its fields getHealthStatus      *)
(* reads through getStats(): state, failures and requests.  Whether the    *)
(* reset timeout has passed and whether a threshold is reached is decided  *)
(* by fields left out here: both outcomes are taken.                       *)
(***************************************************************************)
Names == {"service1", "service2"}
NewBreaker == [state |-> "closed", failures |-> 0, requests |-> 0]
NoHealth == [overall |-> "none", services |-> [name \in Names |-> {}]]

InitMgr ==
  /\ mgrBreakers = [name \in Names |-> {}]
  /\ mgrHealth = NoHealth
  /\ mgrLast = "none"

\* the breaker the manager holds under the name
mgrBreaker(name) == CHOOSE b \in mgrBreakers[name] : TRUE

\* a step that changes the breaker under the name; it returns no status
mgrStep(op, name, breaker) ==
  /\ mgrBreakers[name] # {}
  /\ mgrBreakers' = [mgrBreakers EXCEPT ![name] = {breaker}]
  /\ mgrLast' = op
  /\ mgrHealth' = NoHealth
  /\ UNCHANGED outsideMgr

\* CircuitBreakerManager.getBreaker
getBreaker(name) ==
  /\ mgrBreakers' = [mgrBreakers EXCEPT ![name] = IF @ = {} THEN {NewBreaker} ELSE @]
  /\ mgrLast' = "getBreaker"
  /\ mgrHealth' = NoHealth
  /\ UNCHANGED outsideMgr

\* CircuitBreaker.execute up to the operation: requests++, and an open
\* circuit goes half-open when the reset timeout has passed
mgrExecute(name, due) ==
  /\ mgrBreakers[name] # {}
  /\ mgrBreaker(name).requests < MaxMgrRequests
  /\ mgrStep("execute", name,
             [mgrBreaker(name) EXCEPT !.requests = @ + 1,
                                      !.state = IF @ = "open" /\ due THEN "half-open" ELSE @])

\* CircuitBreaker.onSuccess
mgrOnSuccess(name, enough) ==
  /\ mgrBreakers[name] # {}
  /\ mgrStep("onSuccess", name,
             IF (mgrBreaker(name).state = "half-open" /\ enough) \/ mgrBreaker(name).state = "open"
               THEN [mgrBreaker(name) EXCEPT !.state = "closed", !.failures = 0]
               ELSE mgrBreaker(name))

\* CircuitBreaker.onFailure
mgrOnFailure(name, enough) ==
  /\ mgrBreakers[name] # {}
  /\ mgrBreaker(name).failures < MaxMgrRequests
  /\ mgrStep("onFailure", name,
             [mgrBreaker(name) EXCEPT
                !.failures = @ + 1,
                !.state = IF (@ = "closed" /\ enough) \/ @ = "half-open" THEN "open" ELSE @])

\* CircuitBreaker.open of a breaker of the manager
mgrOpen(name) ==
  /\ mgrBreakers[name] # {}
  /\ mgrStep("open", name, [mgrBreaker(name) EXCEPT !.state = "open"])

\* what close() and reset() leave of a breaker
closed(breaker) == [breaker EXCEPT !.state = "closed", !.failures = 0]
cleared(breaker) == [breaker EXCEPT !.failures = 0, !.requests = 0]

\* CircuitBreakerManager.closeAll
closeAll ==
  /\ mgrBreakers' = [name \in Names |-> {closed(b) : b \in mgrBreakers[name]}]
  /\ mgrLast' = "closeAll"
  /\ mgrHealth' = NoHealth
  /\ UNCHANGED outsideMgr

\* CircuitBreakerManager.resetAll
resetAll ==
  /\ mgrBreakers' = [name \in Names |-> {cleared(b) : b \in mgrBreakers[name]}]
  /\ mgrLast' = "resetAll"
  /\ mgrHealth' = NoHealth
  /\ UNCHANGED outsideMgr

\* the status getHealthStatus gives a breaker in the state
statusOf(st) ==
  IF st = "closed" THEN "healthy" ELSE IF st = "half-open" THEN "degraded" ELSE "critical"

\* stats.requests > 0 ? ((stats.requests - stats.failures) / stats.requests) * 100 : 100,
\* as the fraction num / den
uptimeOf(stats) ==
  IF stats.requests > 0
    THEN [num |-> (stats.requests - stats.failures) * 100, den |-> stats.requests]
    ELSE [num |-> 100, den |-> 1]

\* healthyCount, degradedCount or criticalCount after the forEach
countOf(status) ==
  Cardinality({name \in Names : \E b \in mgrBreakers[name] : statusOf(b.state) = status})

\* mutant of overallOf: a half-open breaker is looked for first
overallOfDegradedFirst(degradedCount, criticalCount) ==
  IF degradedCount > 0 THEN "degraded" ELSE IF criticalCount > 0 THEN "critical" ELSE "healthy"

\* the overall status
overallOf(degradedCount, criticalCount) ==
  IF criticalCount > 0 THEN "critical" ELSE IF degradedCount > 0 THEN "degraded" ELSE "healthy"

\* CircuitBreakerManager.getHealthStatus
getHealthStatus ==
  /\ mgrHealth' =
       [overall |-> overallOf(countOf("degraded"), countOf("critical")),
        services |-> [name \in Names |->
                        {[status |-> statusOf(b.state), state |-> b.state,
                          uptime |-> uptimeOf(b)] : b \in mgrBreakers[name]}]]
  /\ mgrLast' = "getHealthStatus"
  /\ UNCHANGED <<mgrBreakers, outsideMgr>>

NextManager ==
  \/ \E name \in Names : getBreaker(name)
  \/ \E name \in Names, due \in BOOLEAN : mgrExecute(name, due)
  \/ \E name \in Names, enough \in BOOLEAN : mgrOnSuccess(name, enough)
  \/ \E name \in Names, enough \in BOOLEAN : mgrOnFailure(name, enough)
  \/ \E name \in Names : mgrOpen(name)
  \/ closeAll
  \/ resetAll
  \/ getHealthStatus

(***************************************************************************)
(* The semantic cache                                                      *)
(*                                                                         *)
(* A string is the sequence of its characters; a key is "llm:" followed by *)
(* characters.  A Map is the sequence of its <<key, value>> pairs in       *)
(* insertion order.  A similarity is [num, den]: the number num / sqrt(den)*)
(* with den > 0.  A threshold is <<p, q>>: the number p / q with q > 0.    *)
(***************************************************************************)
Queries == {<<"H", "i", " ">>, <<"h", "i">>, <<"y", "o">>}
Vectors == {<<1, 0>>, <<3, 4>>, <<1, 0, 0>>}
Thresholds == {<<3, 5>>, <<7, 10>>}
Limits == 0..MaxLimit
VecTtls == {{}} \cup {{n} : n \in 1..MaxTtl}
\* the query text passed to searchSimilar, which only seeds the choice of a response
SearchQueries == {<<"h", "i">>}
\* CachedLLMEntry values with one response and no variant_strategy, weights or
\* seed; last_accessed is the Date the caller built the entry with
Entries ==
  {[query |-> q, query_embedding |-> v, responses |-> <<"r1">>, variant_strategy |-> {},
    weights |-> {}, seed |-> NoSeed, last_accessed |-> 0] : q \in Queries, v \in Vectors}
\* the variant_strategy and seed of the entries below
StrategyAndSeed ==
  {<<{}, NoSeed>>, <<{"round-robin"}, NoSeed>>, <<{"deterministic"}, NoSeed>>,
   <<{"deterministic"}, StringSeed(<<"s", "1">>)>>}
\* entries with no, two or three responses
VariantEntries ==
  {[query |-> q, query_embedding |-> <<1, 0>>, responses |-> r, variant_strategy |-> sd[1],
    weights |-> {}, seed |-> sd[2], last_accessed |-> 0] :
     q \in {<<"h", "i">>, <<"y", "o">>},
     r \in {<<>>, <<"r1", "r2">>, <<"r1", "r2", "r3">>},
     sd \in StrategyAndSeed}
\* one draw of Math.random() for each stored entry, in the order of the Map:
\* the least and the largest
Draws == [1..2 -> {0, RandomDen - 1}]
\* entries with one response never reach Math.random()
NoDraws == [i \in 1..2 |-> 0]
\* a value that is no CachedLLMEntry
NotAnEntry == [text |-> <<"h", "i">>]

toLowerCase(str) ==
  [i \in 1..Len(str) |-> CASE str[i] = "H" -> "h" [] str[i] = "I" -> "i" [] OTHER -> str[i]]

RECURSIVE trimStart(_)
trimStart(str) == IF str # <<>> /\ Head(str) = " " THEN trimStart(Tail(str)) ELSE str

RECURSIVE trimEnd(_)
trimEnd(str) ==
  IF str # <<>> /\ str[Len(str)] = " " THEN trimEnd(SubSeq(str, 1, Len(str) - 1)) ELSE str

trim(str) == trimEnd(trimStart(str))

\* mutant of buildKey: the query is used as it is spelled
buildKeyAsSpelled(query) == <<"llm:">> \o query

\* `llm:${query.toLowerCase().trim()}`
buildKey(query) == <<"llm:">> \o trim(toLowerCase(query))

VecKeys == {buildKey(q) : q \in Queries}

MapHas(map, key) == \E i \in 1..Len(map) : map[i][1] = key
MapGet(map, key) == {map[i][2] : i \in {j \in 1..Len(map) : map[j][1] = key}}
MapSet(map, key, value) ==
  IF MapHas(map, key)
    THEN [i \in 1..Len(map) |-> IF map[i][1] = key THEN <<key, value>> ELSE map[i]]
    ELSE Append(map, <<key, value>>)
MapDelete(map, key) == SelectSeq(map, LAMBDA pair : pair[1] # key)

RECURSIVE Dot(_, _)
Dot(vecA, vecB) ==
  IF vecA = <<>> THEN 0 ELSE Head(vecA) * Head(vecB) + Dot(Tail(vecA), Tail(vecB))

\* dotProduct / (sqrt(normA) * sqrt(normB)), 0 when a norm is 0
Quotient(vecA, vecB) ==
  IF Dot(vecA, vecA) = 0 \/ Dot(vecB, vecB) = 0
    THEN [err |-> FALSE, num |-> 0, den |-> 1]
    ELSE [err |-> FALSE, num |-> Dot(vecA, vecB), den |-> Dot(vecA, vecA) * Dot(vecB, vecB)]

\* mutant of cosineSimilarity: a stored vector of another length counts as similarity 0
cosineSimilarityLenient(vecA, vecB) ==
  IF Len(vecA) # Len(vecB) THEN [err |-> FALSE, num |-> 0, den |-> 1] ELSE Quotient(vecA, vecB)

\* InMemoryVectorCache.cosineSimilarity; err: it throws "Vector dimensions must match"
cosineSimilarity(vecA, vecB) ==
  IF Len(vecA) # Len(vecB) THEN [err |-> TRUE, num |-> 0, den |-> 1] ELSE Quotient(vecA, vecB)

\* a * sqrt(c) >= b * sqrt(e), for c > 0 and e > 0
RootGeq(a, c, b, e) ==
  IF a >= 0 /\ b >= 0 THEN a * a * c >= b * b * e
  ELSE IF a >= 0 THEN TRUE
  ELSE IF b >= 0 THEN FALSE
  ELSE a * a * c <= b * b * e

\* mutant of meetsThreshold: similarity > similarity_threshold
meetsThresholdStrictly(sim, thr) ==
  ~RootGeq(thr[1], sim.den, thr[2] * sim.num, 1)

\* similarity >= similarity_threshold
meetsThreshold(sim, thr) == RootGeq(thr[2] * sim.num, 1, thr[1], sim.den)

\* b.similarity_score - a.similarity_score <= 0: a does not come after b
scoreGeq(a, b) == RootGeq(a.similarity_score.num, b.similarity_score.den,
                          b.similarity_score.num, a.similarity_score.den)

\* results.sort(...) of a list whose tail is sorted: Array.prototype.sort is
\* stable, m goes behind the results that score as high as it does
RECURSIVE insertSorted(_, _)
insertSorted(m, sorted) ==
  IF sorted = <<>> THEN <<m>>
  ELSE IF scoreGeq(Head(sorted), m) THEN <<Head(sorted)>> \o insertSorted(m, Tail(sorted))
  ELSE <<m>> \o sorted

RECURSIVE sortResults(_)
sortResults(results) ==
  IF results = <<>> THEN <<>>
  ELSE insertSorted(results[Len(results)], sortResults(SubSeq(results, 1, Len(results) - 1)))

\* seed: entry.seed || query
seedOr(seed, query) ==
  IF seed.type = "undefined" \/ (seed.type = "string" /\ seed.str = <<>>)
       \/ (seed.type = "number" /\ seed.num = 0)
    THEN StringSeed(query) ELSE seed

\* mutant of selectResponse: the response is drawn, whatever the strategy
selectResponseAtRandom(entry, query, rnd) ==
  IF entry.responses = <<>> THEN {}
  ELSE {entry.responses[floorRandom(rnd, Len(entry.responses)) + 1]}

\* InMemoryVectorCache.selectResponse: {} when it returns undefined
selectResponse(entry, query, rnd) ==
  IF Len(entry.responses) = 1 THEN {entry.responses[1]}
  ELSE LET chosen ==
             selectVariant([strategy |-> IF entry.variant_strategy \in {{}, {""}}
                                           THEN {"random"} ELSE entry.variant_strategy,
                            variants |-> entry.responses,
                            weights |-> entry.weights,
                            seed |-> seedOr(entry.seed, query)], rnd, {})
       IN IF chosen.null \/ chosen.variant = {}
            THEN IF entry.responses = <<>> THEN {} ELSE {entry.responses[1]}
            ELSE chosen.variant

\* the for loop of searchSimilar from pair i of embeddings on: the results
\* pushed, or the error thrown by a comparison
RECURSIVE collect(_, _, _, _, _, _)
collect(i, results, query, vector, thr, draws) ==
  IF i > Len(vecEmbeddings) THEN [err |-> FALSE, results |-> results]
  ELSE LET key == vecEmbeddings[i][1]
           similarity == cosineSimilarity(vector, vecEmbeddings[i][2])
           entry == CHOOSE e \in MapGet(vecEntries, key) : TRUE
       IN IF similarity.err THEN [err |-> TRUE, results |-> <<>>]
          ELSE IF meetsThreshold(similarity, thr) /\ MapHas(vecEntries, key)
            THEN collect(i + 1,
                         Append(results, [key |-> key,
                                          entry |-> entry,
                                          similarity_score |-> similarity,
                                          selected_response |->
                                            selectResponse(entry, query, draws[i])]),
                         query, vector, thr, draws)
            ELSE collect(i + 1, results, query, vector, thr, draws)

\* results.slice(0, limit)
slice(results, limit) == SubSeq(results, 1, IF limit < Len(results) THEN limit ELSE Len(results))

NoOut ==
  [op |-> "none", key |-> <<>>, query |-> <<>>, found |-> {}, err |-> FALSE, matches |-> <<>>,
   total_matches |-> 0, vector |-> <<>>, limit |-> 0, threshold |-> <<0, 1>>]

\* the query of an entry as the claims normalize it: trimmed, then lowercased
Normalized(query) == toLowerCase(trim(query))
NormalizedQueries == {Normalized(q) : q \in Queries}

InitVec ==
  /\ vecEntries = <<>>
  /\ vecEmbeddings = <<>>
  /\ vecTimers = {}
  /\ vecOut = NoOut
  /\ vecLastSet = [key \in VecKeys |-> {}]
  /\ vecLatest = [n \in NormalizedQueries |-> {}]
  /\ vecViaStore = TRUE
  /\ vecCalls = 0
  /\ vecServed = [key \in VecKeys |-> <<>>]

\* every call is counted
vecCall ==
  /\ vecCalls < MaxVecCalls
  /\ vecCalls' = vecCalls + 1

\* InMemoryVectorCache.updateAccessStats: the entry under buildKey(query) gets
\* the time t as its last_accessed
updateAccessStats(entries, query, t) ==
  IF MapHas(entries, buildKey(query))
    THEN MapSet(entries, buildKey(query),
                [(CHOOSE e \in MapGet(entries, buildKey(query)) : TRUE)
                   EXCEPT !.last_accessed = t])
    ELSE entries

\* InMemoryVectorCache.get: it calls updateAccessStats with the key, which
\* looks for an entry under buildKey(key); it returns the entry under key
vecGet(key) ==
  /\ vecCall
  /\ vecEntries' = IF MapHas(vecEntries, key) THEN updateAccessStats(vecEntries, key, kvNow)
                   ELSE vecEntries
  /\ vecOut' = [NoOut EXCEPT !.op = "get", !.key = key, !.found = MapGet(vecEntries', key)]
  /\ UNCHANGED <<kvNow, vecEmbeddings, vecTimers, vecLastSet, vecLatest, vecViaStore, vecServed,
                 outsideVec>>

\* InMemoryVectorCache.set
vecSet(key, value, ttl) ==
  /\ vecCall
  /\ vecOut' = [NoOut EXCEPT !.op = "set", !.key = key]
  /\ IF "query" \in DOMAIN value
       THEN /\ vecEntries' = MapSet(vecEntries, key, value)
            /\ vecEmbeddings' = MapSet(vecEmbeddings, key, value.query_embedding)
            /\ vecTimers' = vecTimers \cup
                  {[key |-> key, due |-> kvNow + n * MsPerSecond] : n \in ttl \ {0}}
            /\ vecLastSet' = [vecLastSet EXCEPT ![key] = {[value |-> value, at |-> kvNow,
                                                           ttl |-> ttl]}]
            /\ vecViaStore' = FALSE
            /\ vecServed' = [vecServed EXCEPT ![key] = <<>>]
       ELSE UNCHANGED <<vecEntries, vecEmbeddings, vecTimers, vecLastSet, vecViaStore,
                        vecServed>>
  /\ UNCHANGED <<kvNow, vecLatest, outsideVec>>

\* the callback of the setTimeout of set()
vecTimerFires(t) ==
  /\ t \in vecTimers
  /\ t.due <= kvNow
  /\ vecTimers' = vecTimers \ {t}
  /\ vecEntries' = MapDelete(vecEntries, t.key)
  /\ vecEmbeddings' = MapDelete(vecEmbeddings, t.key)
  /\ vecOut' = [NoOut EXCEPT !.op = "timer", !.key = t.key]
  /\ vecLatest' = [n \in NormalizedQueries |->
                     IF \E e \in MapGet(vecEntries, t.key) : Normalized(e.query) = n
                       THEN {} ELSE vecLatest[n]]
  /\ vecServed' = [vecServed EXCEPT ![t.key] = <<>>]
  /\ UNCHANGED <<kvNow, vecLastSet, vecViaStore, vecCalls, outsideVec>>

\* InMemoryVectorCache.clear
vecClear ==
  /\ vecCall
  /\ vecEntries' = <<>>
  /\ vecEmbeddings' = <<>>
  /\ vecOut' = [NoOut EXCEPT !.op = "clear"]
  /\ vecLastSet' = [key \in VecKeys |-> {}]
  /\ vecLatest' = [n \in NormalizedQueries |-> {}]
  /\ vecViaStore' = TRUE
  /\ vecServed' = [key \in VecKeys |-> <<>>]
  /\ UNCHANGED <<kvNow, vecTimers, outsideVec>>

\* InMemoryVectorCache.storeLLMResponse
storeLLMResponse(entry) ==
  /\ vecCall
  /\ LET key == buildKey(entry.query) IN
       /\ vecEntries' = MapSet(vecEntries, key, entry)
       /\ vecEmbeddings' = MapSet(vecEmbeddings, key, entry.query_embedding)
       /\ vecOut' = [NoOut EXCEPT !.op = "store", !.key = key, !.query = entry.query]
       /\ vecLastSet' = [vecLastSet EXCEPT ![key] = {[value |-> entry, at |-> kvNow,
                                                      ttl |-> {}]}]
       /\ vecServed' = [vecServed EXCEPT ![key] = <<>>]
  /\ vecLatest' = [vecLatest EXCEPT ![Normalized(entry.query)] =
                     {[entry |-> entry, replaced |-> {r.entry : r \in @}]}]
  /\ UNCHANGED <<kvNow, vecTimers, vecViaStore, outsideVec>>

\* the history of what was served, after a search that returned the matches
servedAfter(matches) ==
  [key \in VecKeys |->
     IF \E i \in 1..Len(matches) :
          matches[i].key = key /\ matches[i].entry.variant_strategy # {}
       THEN Append(vecServed[key],
                   (CHOOSE m \in {matches[i] : i \in 1..Len(matches)} : m.key = key)
                     .selected_response)
       ELSE vecServed[key]]

\* InMemoryVectorCache.searchSimilar; its awaits are of promises that are
\* already settled, no timer and no other call runs before it returns; draws
\* are the values Math.random() gives when selectResponse asks for one
searchSimilar(query, vector, limit, thr, draws) ==
  /\ vecCall
  /\ LET found == collect(1, <<>>, query, vector, thr, draws)
         results == sortResults(found.results)
     IN /\ vecOut' = [NoOut EXCEPT !.op = "search", !.vector = vector,
                                   !.limit = limit, !.threshold = thr,
                                   !.err = found.err,
                                   !.matches = slice(results, limit),
                                   !.total_matches = Len(results)]
        /\ vecServed' = servedAfter(slice(results, limit))
  /\ UNCHANGED <<kvNow, vecEntries, vecEmbeddings, vecTimers, vecLastSet, vecLatest, vecViaStore,
                 outsideVec>>

\* InMemoryVectorCache.getResponses
getResponses(query) ==
  /\ vecCall
  /\ vecOut' = [NoOut EXCEPT !.op = "getResponses", !.query = query, !.key = buildKey(query),
                             !.found = MapGet(vecEntries, buildKey(query))]
  /\ UNCHANGED <<kvNow, vecEntries, vecEmbeddings, vecTimers, vecLastSet, vecLatest, vecViaStore,
                 vecServed, outsideVec>>

\* a second passes, once the timers that are due have fired
vecTick ==
  /\ kvNow < MaxVecTime
  /\ \A t \in vecTimers : t.due > kvNow
  /\ kvNow' = kvNow + MsPerSecond
  /\ vecOut' = [NoOut EXCEPT !.op = "tick"]
  /\ UNCHANGED <<vecEntries, vecEmbeddings, vecTimers, vecLastSet, vecLatest, vecViaStore, vecCalls,
                 vecServed, outsideVec>>

NextVec ==
  \/ \E key \in VecKeys : vecGet(key)
  \/ \E key \in VecKeys, value \in Entries \cup {NotAnEntry}, ttl \in VecTtls :
       vecSet(key, value, ttl)
  \/ \E t \in vecTimers : vecTimerFires(t)
  \/ vecClear
  \/ \E entry \in Entries : storeLLMResponse(entry)
  \/ \E query \in SearchQueries, vector \in Vectors, limit \in Limits, thr \in Thresholds :
       searchSimilar(query, vector, limit, thr, NoDraws)
  \/ \E query \in Queries : getResponses(query)
  \/ vecTick

\* the semantic cache holding entries with several responses or none
NextVariants ==
  \/ \E entry \in VariantEntries : storeLLMResponse(entry)
  \/ \E query \in {<<"h", "i">>, <<"y", "o">>}, vector \in {<<1, 0>>, <<3, 4>>}, draws \in Draws :
       searchSimilar(query, vector, MaxLimit, <<7, 10>>, draws)
  \/ \E key \in VecKeys : vecGet(key)
  \/ \E query \in Queries : getResponses(query)
  \/ vecTick

(***************************************************************************)
(* The cache routes put and query (src/web/routes)                         *)
(*                                                                         *)
(* Two requests can be in flight: a query is suspended at                  *)
(* `await selectCache().get(key)` and goes on from there in one step, the  *)
(* INCR it sends being answered by the server in the order of arrival.     *)
(* The cache is the values last put under each key.                        *)
(***************************************************************************)
Requests == {1, 2}

\* .replace(/\s+/g, " ")
RECURSIVE collapse(_)
collapse(str) ==
  IF Len(str) < 2 THEN str
  ELSE IF str[1] = " " /\ str[2] = " " THEN collapse(Tail(str))
  ELSE <<str[1]>> \o collapse(Tail(str))

\* canonicalize: the characters of the model are their own NFKC form
canonicalize(query) == [q |-> collapse(toLowerCase(trim(query))), v |-> 1]

\* `rc:${canonicalize(input)}`
buildCacheKey(query) == <<"rc:", canonicalize(query)>>

RouteKeys == {buildCacheKey(query) : query \in Queries}

\* the bodies put: a response holding variants to serve in turn, or none
PlainResponse == [variants |-> {}, variantStrategy |-> {}]
Responses ==
  {PlainResponse} \cup
  {[variants |-> {SubSeq(VariantIds, 1, n)}, variantStrategy |-> {"round-robin"}] :
     n \in 2..MaxVariants}
IdleRequest == [at |-> "idle", key |-> <<>>, value |-> {}]
NoReply == [key |-> <<>>, body |-> {}, index |-> {}]

InitQuery ==
  /\ qryStore = [key \in RouteKeys |-> {}]
  /\ qryRedis = [key \in RouteKeys |-> 0]
  /\ qryRedisUp = TRUE
  /\ qryRr = 0
  /\ qryCall = [r \in Requests |-> IdleRequest]
  /\ qryOut = NoReply
  /\ qryServed = [key \in RouteKeys |-> <<>>]
  /\ qryCount = 0

\* cacheController.put
put(query, response) ==
  /\ qryStore' = [qryStore EXCEPT ![buildCacheKey(query)] = {response}]
  /\ qryServed' = [qryServed EXCEPT ![buildCacheKey(query)] = <<>>]
  /\ qryOut' = [NoReply EXCEPT !.key = buildCacheKey(query)]
  /\ UNCHANGED <<qryRedis, qryRedisUp, qryRr, qryCall, qryCount, outsideQuery>>

\* cacheController.query up to `await selectCache().get(key)`
queryGet(r, query) ==
  /\ qryCall[r].at = "idle"
  /\ qryCount < MaxQueries
  /\ qryCount' = qryCount + 1
  /\ qryCall' = [qryCall EXCEPT ![r] = [at |-> "got", key |-> buildCacheKey(query),
                                       value |-> qryStore[buildCacheKey(query)]]]
  /\ qryOut' = NoReply
  /\ UNCHANGED <<qryStore, qryRedis, qryRedisUp, qryRr, qryServed, outsideQuery>>

\* whether the query reaches rrProvider: the value has variants, the list is
\* not empty and the strategy is round-robin
asksCounter(value) ==
  \E v \in value : \E list \in v.variants : list # <<>> /\ v.variantStrategy = {"round-robin"}

\* rrProvider: RedisBunCache.nextRoundRobinIndex(key), or when it throws
\* Number(globalThis.__rr || 0) + 1
nextIndex(key) == IF qryRedisUp THEN qryRedis[key] + 1 ELSE qryRr + 1

\* the rest of cacheController.query: the variant selectVariant returns, or
\* the value as it is stored
queryReply(r) ==
  /\ qryCall[r].at = "got"
  /\ LET key == qryCall[r].key
         value == qryCall[r].value
         selected == IF \E v \in value : v.variants # {}
                     THEN LET v == CHOOSE x \in value : TRUE
                          IN selectVariant([strategy |-> v.variantStrategy,
                                            variants |-> CHOOSE list \in v.variants : TRUE,
                                            weights |-> {}, seed |-> NoSeed],
                                           0, {nextIndex(key)})
                     ELSE NoSelection
     IN /\ qryRedis' = IF asksCounter(value) /\ qryRedisUp
                         THEN [qryRedis EXCEPT ![key] = @ + 1] ELSE qryRedis
        /\ qryRr' = IF asksCounter(value) /\ ~qryRedisUp THEN nextIndex(key) ELSE qryRr
        /\ qryOut' = IF selected.null THEN [key |-> key, body |-> value, index |-> {}]
                     ELSE [key |-> key, body |-> selected.variant, index |-> {selected.index}]
        /\ qryServed' = [qryServed EXCEPT ![key] =
                           IF qryStore[key] # value THEN <<>>
                           ELSE IF selected.null THEN @
                           ELSE IF Len(@) = MaxVariants THEN Append(Tail(@), selected.index)
                           ELSE Append(@, selected.index)]
  /\ qryCall' = [qryCall EXCEPT ![r] = IdleRequest]
  /\ UNCHANGED <<qryStore, qryRedisUp, qryCount, outsideQuery>>

\* the connection to the Redis server is lost: nextRoundRobinIndex throws
\* from now on
redisDown ==
  /\ qryRedisUp
  /\ qryRedisUp' = FALSE
  /\ qryOut' = NoReply
  /\ qryServed' = [key \in RouteKeys |-> <<>>]
  /\ UNCHANGED <<qryStore, qryRedis, qryRr, qryCall, qryCount, outsideQuery>>

NextQuery ==
  \/ \E query \in Queries, response \in Responses : put(query, response)
  \/ \E r \in Requests, query \in Queries : queryGet(r, query)
  \/ \E r \in Requests : queryReply(r)
  \/ redisDown

(***************************************************************************)
(* The SecureCacheWrapper over the SQLite store                            *)
(*                                                                         *)
(* A JSON value is [type, str, members]; the members of an object are      *)
(* [name, value].  A string held by the program is the text it spells.     *)
(* AES-GCM: decrypt gives back the plain text under the key that           *)
(* encrypted, when no byte was changed or cut, and throws otherwise.       *)
(***************************************************************************)
JSONString(str) == [type |-> "string", str |-> str, members |-> {}]
JSONObject(members) == [type |-> "object", str |-> "", members |-> members]
Member(name, value) == [name |-> name, value |-> value]
NoValue == [type |-> "none", str |-> "", members |-> {}]

\* the values written: a string, an object, and an object that has the
\* members of the clear-text envelope
SecValues ==
  {JSONString("a"),
   JSONObject({Member("x", JSONNumber)}),
   JSONObject({Member("_v", JSONNumber), Member("clear", JSONString("b"))})}
SecTtls == {{}} \cup {{n} : n \in 1..MaxTtl}
SecKeys == {{}, {"K"}}

\* typeof x === "string"
isString(x) == "form" \in DOMAIN x
\* name in maybe, for maybe && typeof maybe === "object"
hasMember(maybe, name) == maybe.type = "object" /\ \E m \in maybe.members : m.name = name
getMember(maybe, name) == (CHOOSE m \in maybe.members : m.name = name).value

\* mutant of clearEnvelope: the value is written without the envelope
clearEnvelopeBare(plain) == JSONstringify(plain)

\* JSON.stringify({ _v: 1, clear: plain })
clearEnvelope(plain) ==
  JSONstringify(JSONObject({Member("_v", JSONNumber), Member("clear", plain)}))

\* base64(iv + AES-GCM(key, iv, JSON.stringify(plain))); numeric: how the
\* text built on the random iv reads
cipherEnvelope(key, plain, numeric) ==
  [form |-> "base64",
   of |-> [key |-> key, plain |-> JSONstringify(plain), numeric |-> numeric, intact |-> TRUE]]

\* encryptForCache: the texts it can return
encryptForCache(plain) ==
  IF secKey = {} THEN {clearEnvelope(plain)}
  ELSE {cipherEnvelope(key, plain, numeric) : key \in secKey, numeric \in BOOLEAN}

\* mutant of isClearEnvelope: the test for the clear-text envelope is gone
isClearEnvelopeNever(text) == FALSE

\* JSON.parse(ciphertext) gives an object with _v and clear
isClearEnvelope(text) ==
  /\ JSONparses(text)
  /\ hasMember(JSONparse(text), "_v")
  /\ hasMember(JSONparse(text), "clear")

\* crypto.subtle.decrypt does not throw
decrypts(text) == text.form = "base64" /\ text.of.intact /\ text.of.key \in secKey

Returned(kind, value, path) == [kind |-> kind, value |-> value, path |-> path]

\* decryptFromCache
decryptFromCache(text) ==
  IF isClearEnvelope(text) THEN Returned("value", getMember(JSONparse(text), "clear"), "clear")
  ELSE IF secKey = {} THEN Returned("null", NoValue, "cipher")
  ELSE IF ~decrypts(text) THEN Returned("error", NoValue, "cipher")
  ELSE Returned("value", JSONparse(text.of.plain), "cipher")

\* what another writer leaves in column value: a text that is no JSON, the
\* JSON text of a cut ciphertext, of a ciphertext under another key, and of
\* an object
OtherRows ==
  {[form |-> "garbage", of |-> NoValue],
   JSONstringify([form |-> "base64",
                  of |-> [key |-> "K", plain |-> JSONstringify(JSONString("a")),
                          numeric |-> FALSE, intact |-> FALSE]]),
   JSONstringify([form |-> "base64",
                  of |-> [key |-> "other", plain |-> JSONstringify(JSONString("a")),
                          numeric |-> FALSE, intact |-> TRUE]]),
   JSONstringify(JSONObject({Member("x", JSONNumber)}))}

NoSecOut == [op |-> "none", key |-> "-", kind |-> "none", value |-> NoValue, path |-> "none",
             was |-> "none"]

InitSec ==
  /\ secKey = {}
  /\ secOut = NoSecOut
  /\ secLastSet = [k \in Keys |-> {}]
  /\ secCalls = 0

secCall ==
  /\ secCalls < MaxSecCalls
  /\ secCalls' = secCalls + 1

\* SecureCacheWrapper.get over SqliteCache.get; was is history: the row
\* before the call
secGet(k) ==
  /\ secCall
  /\ sqlRows' = [sqlRows EXCEPT ![k] = sqlLive(k)]
  /\ LET was == IF sqlRows[k] = {} THEN "absent" ELSE IF sqlLive(k) = {} THEN "expired" ELSE "live"
         raw == sqlValue(k)
         ret == IF raw = {} THEN Returned("null", NoValue, "none")
                ELSE LET x == CHOOSE v \in raw : TRUE IN
                     IF ~isString(x) THEN Returned("value", x, "raw") ELSE decryptFromCache(x)
     IN secOut' = [op |-> "get", key |-> k, kind |-> ret.kind, value |-> ret.value,
                   path |-> ret.path, was |-> was]
  /\ UNCHANGED <<kvNow, kvLast, secKey, secLastSet, outsideSec>>

\* SecureCacheWrapper.set over SqliteCache.set
secSet(k, v, ttl) ==
  /\ secCall
  /\ \E enc \in encryptForCache(v) :
       sqlRows' = [sqlRows EXCEPT ![k] =
                    {[value |-> JSONstringify(enc), expiresAt |-> ExpiresAt(ttl, kvNow)]}]
  /\ secLastSet' = [secLastSet EXCEPT ![k] = {[value |-> v, key |-> secKey, at |-> kvNow,
                                                ttl |-> ttl]}]
  /\ secOut' = [NoSecOut EXCEPT !.op = "set", !.key = k]
  /\ UNCHANGED <<kvNow, kvLast, secKey, outsideSec>>

\* SecureCacheWrapper.clear over SqliteCache.clear
secClear ==
  /\ secCall
  /\ sqlRows' = [k \in Keys |-> {}]
  /\ secLastSet' = [k \in Keys |-> {}]
  /\ secOut' = [NoSecOut EXCEPT !.op = "clear"]
  /\ UNCHANGED <<kvNow, kvLast, secKey, outsideSec>>

\* the process is started again with another CACHE_ENCRYPTION_KEY setting:
\* loadConfig() and getOrCreateKey() run once per process; the table stays
secRestart(key) ==
  /\ key # secKey
  /\ secKey' = key
  /\ secOut' = [NoSecOut EXCEPT !.op = "restart"]
  /\ UNCHANGED <<kvNow, kvLast, sqlRows, secLastSet, secCalls, outsideSec>>

\* another writer on the table replaces, cuts or damages the row of k
secOtherWriter(k, text) ==
  /\ secCall
  /\ sqlRows' = [sqlRows EXCEPT ![k] = {[value |-> text, expiresAt |-> {}]}]
  /\ secLastSet' = [secLastSet EXCEPT ![k] = {}]
  /\ secOut' = [NoSecOut EXCEPT !.op = "other", !.key = k]
  /\ UNCHANGED <<kvNow, kvLast, secKey, outsideSec>>

\* time passes
secTick ==
  /\ kvNow < MaxSecTime
  /\ kvNow' = kvNow + MsPerSecond
  /\ secOut' = [NoSecOut EXCEPT !.op = "tick"]
  /\ UNCHANGED <<kvLast, sqlRows, secKey, secLastSet, secCalls, outsideSec>>

NextSecure ==
  \/ \E k \in Keys : secGet(k)
  \/ \E k \in Keys, v \in SecValues, ttl \in SecTtls : secSet(k, v, ttl)
  \/ secClear
  \/ \E key \in SecKeys : secRestart(key)
  \/ \E k \in Keys, text \in OtherRows : secOtherWriter(k, text)
  \/ secTick

(***************************************************************************)
(* The rate limiter (rateLimit, src/variants/selector.ts 75-110)           *)
(*                                                                         *)
(* A request is [forwarded, authorization]: its headers x-forwarded-for    *)
(* and authorization, {} when absent; a header value is the sequence of    *)
(* its characters.  All requests go to the host localhost.                 *)
(***************************************************************************)
\* slice(0, 20)
TokenLength == 20

RateRequestsMade ==
  {[forwarded |-> {}, authorization |-> {}],
   [forwarded |-> {<<"1", "0">>}, authorization |-> {<<"B", "e", "a", "r", "e", "r", " ", "t">>}]}

\* buildKey(req) of the rate limiter: `${ip}:${token}`
rateKey(req) ==
  <<IF req.forwarded = {} THEN <<"i", "p", ":", "localhost">>
    ELSE CHOOSE ip \in req.forwarded : TRUE,
    IF req.authorization = {} THEN <<"a", "n", "o", "n">>
    ELSE LET auth == CHOOSE a \in req.authorization : TRUE
         IN SubSeq(auth, 1, IF Len(auth) < TokenLength THEN Len(auth) ELSE TokenLength)>>

RateKeys == {rateKey(req) : req \in RateRequestsMade}

\* Math.max(0, Math.ceil((bucket.resetAt - now) / 1000))
retryAfter(resetAt, t) ==
  IF resetAt - t <= 0 THEN 0 ELSE (resetAt - t + MsPerSecond - 1) \div MsPerSecond

\* !bucket || bucket.resetAt < now
startsBucket(bucket, t) == bucket = {} \/ \E b \in bucket : b.resetAt < t

NoRateOut == [key |-> <<>>, ok |-> TRUE, status |-> 0, retry |-> 0]

InitRate ==
  /\ rateNow = 0
  /\ buckets = [key \in RateKeys |-> {}]
  /\ rateOut = NoRateOut
  /\ admitted = [key \in RateKeys |-> <<>>]
  /\ rateRequests = 0

\* rateLimit(req)
rateLimit(req) ==
  /\ rateRequests < MaxRateRequests
  /\ rateRequests' = rateRequests + 1
  /\ LET key == rateKey(req)
         bucket == buckets[key]
     IN IF startsBucket(bucket, rateNow)
          THEN /\ buckets' = [buckets EXCEPT ![key] =
                                {[count |-> 1, resetAt |-> rateNow + RateWindowMs]}]
               /\ rateOut' = [NoRateOut EXCEPT !.key = key, !.status = 200]
               /\ admitted' = [admitted EXCEPT ![key] = Append(@, rateNow)]
          ELSE LET b == CHOOSE x \in bucket : TRUE IN
               IF b.count >= RateMax
                 THEN /\ rateOut' = [key |-> key, ok |-> FALSE, status |-> 429,
                                     retry |-> retryAfter(b.resetAt, rateNow)]
                      /\ UNCHANGED <<buckets, admitted>>
                 ELSE /\ buckets' = [buckets EXCEPT ![key] = {[b EXCEPT !.count = @ + 1]}]
                      /\ rateOut' = [NoRateOut EXCEPT !.key = key, !.status = 200]
                      /\ admitted' = [admitted EXCEPT ![key] = Append(@, rateNow)]
  /\ UNCHANGED <<rateNow, outsideRate>>

\* a millisecond passes; the history forgets the requests that are no longer
\* in the last RateWindowMs milliseconds
rateTick ==
  /\ rateNow < MaxRateTime
  /\ rateNow' = rateNow + 1
  /\ admitted' = [key \in RateKeys |->
                    SelectSeq(admitted[key], LAMBDA at : at > rateNow' - RateWindowMs)]
  /\ rateOut' = NoRateOut
  /\ UNCHANGED <<buckets, rateRequests, outsideRate>>

NextRate ==
  \/ \E req \in RateRequestsMade : rateLimit(req)
  \/ rateTick

(***************************************************************************)
(* Cache warming (PerformanceOptimizer.startCacheWarming,                  *)
(* executeWarmingStrategy, warmPopularQueries)                             *)
(*                                                                         *)
(* A strategy is [strategy, batchSize, intervalMs, maxEntries] as          *)
(* WarmingStrategySchema of src/web/routes/performance.ts accepts it:      *)
(* batchSize is any number, intervalMs and maxEntries are optional ({}     *)
(* when absent).  One warming runs at a time; its awaits are the steps.    *)
(***************************************************************************)
\* strategy.maxEntries || 1000
DefaultEntries == 1000
\* a progress of 100 percent
Percent == 100

StrategyNames == {"popular", "recent", "scheduled", "predictive"}

\* the requests made: every strategy, a batchSize of 0 included; the requests
\* that fall back on the default of 1000 entries use a large batch or 0
WarmingStrategies ==
  {[strategy |-> s, batchSize |-> b, intervalMs |-> iv, maxEntries |-> m] :
     s \in StrategyNames, b \in 0..MaxBatch, iv \in {{}, {0}, {1}},
     m \in {{WarmEntries}, {-1}}}
  \cup
  {[strategy |-> s, batchSize |-> b, intervalMs |-> iv, maxEntries |-> m] :
     s \in StrategyNames, b \in {0, LargeBatch}, iv \in {{}, {0}, {1}},
     m \in {{}, {0}}}

\* strategy.maxEntries || 1000: an absent maxEntries and 0 are falsy
totalEntries(strategy) ==
  IF \E m \in strategy.maxEntries : m # 0
    THEN CHOOSE m \in strategy.maxEntries : TRUE
    ELSE DefaultEntries

\* Math.min(i + batchSize, totalEntries)
batchEnd(i, strategy) ==
  IF i + strategy.batchSize < totalEntries(strategy) THEN i + strategy.batchSize
  ELSE totalEntries(strategy)

\* the greatest common divisor of a >= 0 and b > 0
RECURSIVE commonDivisor(_, _)
commonDivisor(a, b) == IF a = 0 THEN b ELSE commonDivisor(b % a, a)

\* (batchEnd / totalEntries) * 100, kept as the fraction <<numerator, denominator>>
\* in lowest terms (the loop runs with 0 <= batchEnd and 0 < totalEntries)
percentage(end, total) ==
  LET d == commonDivisor(end * Percent, total)
  IN <<(end * Percent) \div d, total \div d>>

\* i += batchSize, then the loop test i < totalEntries: the next await is
\* the timer of the next batch, or the loop is over and the callers resume
nextBatch(i, strategy) ==
  IF i + strategy.batchSize < totalEntries(strategy) THEN "batch" ELSE "return"

InitWarm ==
  /\ isWarming = FALSE
  /\ warmingProgress = {}
  /\ warmStrategy = {}
  /\ warmI = 0
  /\ warmPc = "idle"
  /\ warmOut = "none"
  /\ warmCalls = 0

\* startCacheWarming(strategy) up to its first await: it throws while a warming
\* is in progress; otherwise it takes the flag, stores the progress and runs
\* executeWarmingStrategy into warmPopularQueries (every strategy ends there)
\* as far as the timer of the first batch
startCacheWarming(strategy) ==
  /\ warmCalls < MaxWarmCalls
  /\ warmCalls' = warmCalls + 1
  /\ IF isWarming
       THEN /\ warmOut' = "Cache warming already in progress"
            /\ UNCHANGED <<isWarming, warmingProgress, warmStrategy, warmI, warmPc>>
       ELSE /\ isWarming' = TRUE
            /\ warmingProgress' = {[strategy |-> strategy.strategy,
                                    totalEntries |-> totalEntries(strategy),
                                    warmedEntries |-> 0,
                                    progress |-> <<0, 1>>,
                                    status |-> "running"]}
            /\ warmStrategy' = {strategy}
            /\ warmI' = 0
            /\ warmPc' = IF 0 < totalEntries(strategy) THEN "batch" ELSE "return"
            /\ warmOut' = "started"
  /\ UNCHANGED outsideWarm

\* the 10 ms timer of a batch has fired: the progress is updated; then the
\* interval is awaited if the strategy has one, else the loop goes on (with
\* batchSize 0 the iteration leaves i, the progress and so every variable as
\* they were, and the next iteration awaits the same timer again)
warmBatch ==
  /\ warmPc = "batch"
  /\ LET strategy == CHOOSE s \in warmStrategy : TRUE
         end == batchEnd(warmI, strategy)
     IN /\ warmingProgress' =
             {[p EXCEPT !.warmedEntries = end,
                        !.progress = percentage(end, totalEntries(strategy))] :
                p \in warmingProgress}
        /\ IF \E ms \in strategy.intervalMs : ms # 0
             THEN /\ warmPc' = "interval"
                  /\ UNCHANGED warmI
             ELSE /\ warmI' = warmI + strategy.batchSize
                  /\ warmPc' = nextBatch(warmI, strategy)
  /\ UNCHANGED <<isWarming, warmStrategy, warmOut, warmCalls, outsideWarm>>

\* the timer of the interval has fired: the loop goes on
warmInterval ==
  /\ warmPc = "interval"
  /\ LET strategy == CHOOSE s \in warmStrategy : TRUE
     IN /\ warmI' = warmI + strategy.batchSize
        /\ warmPc' = nextBatch(warmI, strategy)
  /\ UNCHANGED <<isWarming, warmingProgress, warmStrategy, warmOut, warmCalls, outsideWarm>>

\* the loop is over: executeWarmingStrategy records its metric and returns,
\* startCacheWarming marks the progress completed and releases the flag
warmReturn ==
  /\ warmPc = "return"
  /\ warmingProgress' = {[p EXCEPT !.status = "completed", !.progress = <<Percent, 1>>] :
                           p \in warmingProgress}
  /\ isWarming' = FALSE
  /\ warmStrategy' = {}
  /\ warmI' = 0
  /\ warmPc' = "idle"
  /\ UNCHANGED <<warmOut, warmCalls, outsideWarm>>

NextWarm ==
  \/ \E strategy \in WarmingStrategies : startCacheWarming(strategy)
  \/ warmBatch
  \/ warmInterval
  \/ warmReturn

(* ---------------- Init of the breaker ---------------- *)
InitCB ==
  /\ now = 0
  /\ state = "closed" /\ failures = 0 /\ successes = 0 /\ requests = 0
  /\ lastFailureTime = {} /\ nextAttemptTime = {}
  /\ recentFailures = <<>>
  /\ pc = [c \in Calls |-> "idle"]
  /\ ctxRetries = [c \in Calls |-> 0]
  /\ timer = [c \in Calls |-> {}]
  /\ promise = [c \in Calls |-> "none"]
  /\ opState = [c \in Calls |-> "none"]
  /\ wakeAt = [c \in Calls |-> {}]
  /\ result = [c \in Calls |-> "none"]
  /\ invoked = [c \in Calls |-> 0]
  /\ invokedIn = [c \in Calls |-> "none"]
  /\ nOk = [c \in Calls |-> 0]
  /\ nErr = [c \in Calls |-> 0]
  /\ timedOut = [c \in Calls |-> FALSE]
  /\ started = 0
  /\ failLog = <<>>
  /\ hoSuccesses = 0
  /\ manual = 0
  /\ failedOps = 0
  /\ forgotten = 0
  /\ last = Step("init", 0, "-")
  /\ logged = {}

Init ==
  /\ InitCB
  /\ InitSel
  /\ InitMgr
  /\ InitQuery
  /\ InitKV
  /\ InitSql
  /\ InitRedis
  /\ InitVec
  /\ InitSec
  /\ InitRate
  /\ InitWarm
  /\ failoverEnabled \in BOOLEAN
  /\ maxRetries \in 0..MaxRetriesBound
  /\ fallbackCache = TRUE
  /\ fallbackResponse = FALSE
  /\ degradedMode = TRUE

(* ---------------- execute() ---------------- *)

\* mutant of execute: a rejected call restarts the reset timeout
executePostponing(c, r) ==
  /\ pc[c] = "idle"
  /\ started < MaxRequests
  /\ started' = started + 1
  /\ requests' = requests + 1
  /\ ctxRetries' = [ctxRetries EXCEPT ![c] = r]
  /\ last' = Step("execute", c, state)
  /\ UNCHANGED outsideBreaker
  /\ IF state = "open" /\ ~canAttemptReset
       THEN /\ result' = [result EXCEPT ![c] = rethrow("circuitOpenError", r)]
            /\ logged' = handleFailover(r)
            /\ IF FailoverWaits(r)
                 THEN /\ pc' = [pc EXCEPT ![c] = "failover"]
                      /\ wakeAt' = [wakeAt EXCEPT ![c] = {now + RetryDelayMs}]
                 ELSE /\ pc' = [pc EXCEPT ![c] = "done"]
                      /\ wakeAt' = [wakeAt EXCEPT ![c] = {}]
            /\ invoked' = [invoked EXCEPT ![c] = 0]
            /\ invokedIn' = [invokedIn EXCEPT ![c] = "none"]
            /\ timer' = [timer EXCEPT ![c] = {}]
            /\ promise' = [promise EXCEPT ![c] = "none"]
            /\ opState' = [opState EXCEPT ![c] = "none"]
            /\ nextAttemptTime' = {now + ResetTimeoutMs}
            /\ UNCHANGED <<state, successes, hoSuccesses>>
       ELSE /\ state' = IF state = "open" THEN "half-open" ELSE state
            /\ successes' = IF state = "open" THEN 0 ELSE successes
            /\ hoSuccesses' = IF state = "open" THEN 0 ELSE hoSuccesses
            /\ result' = [result EXCEPT ![c] = "none"]
            /\ logged' = {}
            /\ pc' = [pc EXCEPT ![c] = "running"]
            /\ wakeAt' = [wakeAt EXCEPT ![c] = {}]
            /\ invoked' = [invoked EXCEPT ![c] = 1]
            /\ invokedIn' = [invokedIn EXCEPT ![c] = state']
            /\ timer' = [timer EXCEPT ![c] = {now + TimeoutMs}]
            /\ promise' = [promise EXCEPT ![c] = "pending"]
            /\ opState' = [opState EXCEPT ![c] = "running"]
            /\ UNCHANGED nextAttemptTime
  /\ UNCHANGED <<now, failures, lastFailureTime, recentFailures,
                 cfgVars, nOk, nErr, timedOut, failLog, manual, failedOps, forgotten>>

\* lines 82-113 up to the first await: count the request, gate on the state,
\* and either reject (through handleFailover) or invoke the operation under
\* its timeout timer.
execute(c, r) ==
  /\ pc[c] = "idle"
  /\ started < MaxRequests
  /\ started' = started + 1
  /\ requests' = requests + 1
  /\ ctxRetries' = [ctxRetries EXCEPT ![c] = r]
  /\ last' = Step("execute", c, state)
  /\ UNCHANGED outsideBreaker
  /\ IF state = "open" /\ ~canAttemptReset
       THEN \* rejected: await handleFailover(error), then throw error
            /\ result' = [result EXCEPT ![c] = rethrow("circuitOpenError", r)]
            /\ logged' = handleFailover(r)
            /\ IF FailoverWaits(r)
                 THEN /\ pc' = [pc EXCEPT ![c] = "failover"]
                      /\ wakeAt' = [wakeAt EXCEPT ![c] = {now + RetryDelayMs}]
                 ELSE /\ pc' = [pc EXCEPT ![c] = "done"]
                      /\ wakeAt' = [wakeAt EXCEPT ![c] = {}]
            /\ invoked' = [invoked EXCEPT ![c] = 0]
            /\ invokedIn' = [invokedIn EXCEPT ![c] = "none"]
            /\ timer' = [timer EXCEPT ![c] = {}]
            /\ promise' = [promise EXCEPT ![c] = "none"]
            /\ opState' = [opState EXCEPT ![c] = "none"]
            /\ UNCHANGED <<state, successes, hoSuccesses>>
       ELSE \* admitted: open -> half-open first, then executeWithTimeout
            /\ state' = IF state = "open" THEN "half-open" ELSE state
            /\ successes' = IF state = "open" THEN 0 ELSE successes
            /\ hoSuccesses' = IF state = "open" THEN 0 ELSE hoSuccesses
            /\ result' = [result EXCEPT ![c] = "none"]
            /\ logged' = {}
            /\ pc' = [pc EXCEPT ![c] = "running"]
            /\ wakeAt' = [wakeAt EXCEPT ![c] = {}]
            /\ invoked' = [invoked EXCEPT ![c] = 1]
            /\ invokedIn' = [invokedIn EXCEPT ![c] = state']
            /\ timer' = [timer EXCEPT ![c] = {now + TimeoutMs}]
            /\ promise' = [promise EXCEPT ![c] = "pending"]
            /\ opState' = [opState EXCEPT ![c] = "running"]
  /\ UNCHANGED <<now, failures, lastFailureTime, nextAttemptTime, recentFailures,
                 cfgVars, nOk, nErr, timedOut, failLog, manual, failedOps, forgotten>>

\* the wrapped operation settles (resolves when outcome = "ok", rejects when
\* "err"): its then/catch callback clears the timer and settles the promise.
\* After a timeout the operation is still running and may settle later.
operationSettles(c, outcome) ==
  /\ opState[c] = "running"
  /\ opState' = [opState EXCEPT ![c] = outcome]
  /\ timer' = [timer EXCEPT ![c] = {}]
  /\ promise' = [promise EXCEPT ![c] =
       Settle(promise[c], IF outcome = "ok" THEN "resolved" ELSE "rejectedOp")]
  /\ pc' = IF promise'[c] # promise[c] THEN [pc EXCEPT ![c] = "settled"] ELSE pc
  /\ failedOps' = IF promise[c] = "pending" /\ outcome = "err" THEN failedOps + 1
                  ELSE failedOps
  /\ last' = Step("operationSettles", c, "-")
  /\ UNCHANGED outsideBreaker
  /\ logged' = {}
  /\ UNCHANGED <<now, cbVars, cfgVars, ctxRetries, wakeAt, result,
                 invoked, invokedIn, nOk, nErr, timedOut, started, failLog, hoSuccesses,
                 manual, forgotten>>

\* the timeout timer fires: reject(new Error("Operation timed out ..."))
timeoutFires(c) ==
  /\ \E d \in timer[c] : now >= d
  /\ timer' = [timer EXCEPT ![c] = {}]
  /\ promise' = [promise EXCEPT ![c] = Settle(promise[c], "rejectedTimeout")]
  /\ pc' = IF promise'[c] # promise[c] THEN [pc EXCEPT ![c] = "settled"] ELSE pc
  /\ timedOut' = [timedOut EXCEPT ![c] = TRUE]
  /\ failedOps' = IF promise[c] = "pending" THEN failedOps + 1 ELSE failedOps
  /\ last' = Step("timeoutFires", c, "-")
  /\ UNCHANGED outsideBreaker
  /\ logged' = {}
  /\ UNCHANGED <<now, cbVars, cfgVars, ctxRetries, opState, wakeAt, result,
                 invoked, invokedIn, nOk, nErr, started, failLog, hoSuccesses, manual,
                 forgotten>>

\* execute() resumes with the operation's value: onSuccess, then return result
onSuccess(c) ==
  /\ pc[c] = "settled"
  /\ promise[c] = "resolved"
  /\ successes' = successes + 1
  /\ state' = StateAfterSuccess(state, successes')
  /\ IF state # "closed" /\ state' = "closed"
       THEN /\ failures' = 0 /\ recentFailures' = <<>> /\ failLog' = <<>>
            /\ forgotten' = forgotten + failures
       ELSE UNCHANGED <<failures, recentFailures, failLog, forgotten>>
  /\ hoSuccesses' = hoSuccesses + 1
  /\ nOk' = [nOk EXCEPT ![c] = @ + 1]
  /\ result' = [result EXCEPT ![c] = "value"]
  /\ pc' = [pc EXCEPT ![c] = "done"]
  /\ last' = Step("onSuccess", c, state)
  /\ UNCHANGED outsideBreaker
  /\ logged' = {}
  /\ UNCHANGED <<now, requests, lastFailureTime, nextAttemptTime, cfgVars,
                 ctxRetries, timer, promise, opState, wakeAt,
                 invoked, invokedIn, nErr, timedOut, started, manual, failedOps>>

\* mutant of onFailure: two failures handled at once write the same count, so
\* that the first of the two updates is lost
onFailureLosingUpdate(c) ==
  /\ pc[c] = "settled"
  /\ promise[c] \in {"rejectedOp", "rejectedTimeout"}
  /\ lastFailureTime' = {now}
  /\ failures' = IF \E d \in Calls \ {c} : pc[d] = "settled" /\ promise[d] # "resolved"
                  THEN failures ELSE failures + 1
  /\ recentFailures' = WindowFilter(Append(recentFailures, now), now)
  /\ state' = StateAfterFailure(state, recentFailures')
  /\ nextAttemptTime' = IF state # "open" /\ state' = "open"
                          THEN {now + ResetTimeoutMs} ELSE nextAttemptTime
  /\ failLog' = Append(failLog, now)
  /\ nErr' = [nErr EXCEPT ![c] = @ + 1]
  /\ result' = [result EXCEPT ![c] =
       rethrow(IF promise[c] = "rejectedTimeout" THEN "timeoutError" ELSE "operationError",
               ctxRetries[c])]
  /\ IF FailoverWaits(ctxRetries[c])
       THEN /\ pc' = [pc EXCEPT ![c] = "failover"]
            /\ wakeAt' = [wakeAt EXCEPT ![c] = {now + RetryDelayMs}]
       ELSE /\ pc' = [pc EXCEPT ![c] = "done"]
            /\ wakeAt' = [wakeAt EXCEPT ![c] = {}]
  /\ last' = Step("onFailure", c, state)
  /\ UNCHANGED outsideBreaker
  /\ logged' = handleFailover(ctxRetries[c])
  /\ UNCHANGED <<now, successes, requests, cfgVars, ctxRetries, timer, promise, opState,
                 invoked, invokedIn, nOk, timedOut, started, hoSuccesses, manual,
                 failedOps, forgotten>>

\* execute() resumes with a rejection (the operation's error or the timeout):
\* onFailure up to its await of handleFailover
onFailure(c) ==
  /\ pc[c] = "settled"
  /\ promise[c] \in {"rejectedOp", "rejectedTimeout"}
  /\ lastFailureTime' = {now}
  /\ failures' = failures + 1
  /\ recentFailures' = WindowFilter(Append(recentFailures, now), now)
  /\ state' = StateAfterFailure(state, recentFailures')
  /\ nextAttemptTime' = IF state # "open" /\ state' = "open"
                          THEN {now + ResetTimeoutMs} ELSE nextAttemptTime
  /\ failLog' = Append(failLog, now)
  /\ nErr' = [nErr EXCEPT ![c] = @ + 1]
  /\ result' = [result EXCEPT ![c] =
       rethrow(IF promise[c] = "rejectedTimeout" THEN "timeoutError" ELSE "operationError",
               ctxRetries[c])]
  /\ IF FailoverWaits(ctxRetries[c])
       THEN /\ pc' = [pc EXCEPT ![c] = "failover"]
            /\ wakeAt' = [wakeAt EXCEPT ![c] = {now + RetryDelayMs}]
       ELSE /\ pc' = [pc EXCEPT ![c] = "done"]
            /\ wakeAt' = [wakeAt EXCEPT ![c] = {}]
  /\ last' = Step("onFailure", c, state)
  /\ UNCHANGED outsideBreaker
  /\ logged' = handleFailover(ctxRetries[c])
  /\ UNCHANGED <<now, successes, requests, cfgVars, ctxRetries, timer, promise, opState,
                 invoked, invokedIn, nOk, timedOut, started, hoSuccesses, manual,
                 failedOps, forgotten>>

\* the retry delay of handleFailover is over: it logs "Retrying operation",
\* returns, and execute() throws the error to the caller
failoverWake(c) ==
  /\ pc[c] = "failover"
  /\ \E t \in wakeAt[c] : now >= t
  /\ pc' = [pc EXCEPT ![c] = "done"]
  /\ wakeAt' = [wakeAt EXCEPT ![c] = {}]
  /\ last' = Step("failoverWake", c, "-")
  /\ UNCHANGED outsideBreaker
  /\ logged' = {"retry"}
  /\ UNCHANGED <<now, cbVars, cfgVars, ctxRetries, timer, promise, opState, result,
                 histVars>>

\* the caller has received the result of execute(); the call slot is free
\* again (an operation left running by a timeout is forgotten with it)
finish(c) ==
  /\ pc[c] = "done"
  /\ pc' = [pc EXCEPT ![c] = "idle"]
  /\ ctxRetries' = [ctxRetries EXCEPT ![c] = 0]
  /\ promise' = [promise EXCEPT ![c] = "none"]
  /\ opState' = [opState EXCEPT ![c] = "none"]
  /\ result' = [result EXCEPT ![c] = "none"]
  /\ invoked' = [invoked EXCEPT ![c] = 0]
  /\ invokedIn' = [invokedIn EXCEPT ![c] = "none"]
  /\ nOk' = [nOk EXCEPT ![c] = 0]
  /\ nErr' = [nErr EXCEPT ![c] = 0]
  /\ timedOut' = [timedOut EXCEPT ![c] = FALSE]
  /\ last' = Step("finish", c, "-")
  /\ UNCHANGED outsideBreaker
  /\ logged' = {}
  /\ UNCHANGED <<now, cbVars, cfgVars, timer, wakeAt, started, failLog, hoSuccesses,
                 manual, failedOps, forgotten>>

(* ---------------- manual operations ---------------- *)
close ==
  /\ manual < MaxManual
  /\ manual' = manual + 1
  /\ state' = "closed"
  /\ failures' = 0
  /\ successes' = 0
  /\ recentFailures' = <<>>
  /\ nextAttemptTime' = {}
  /\ failLog' = <<>>
  /\ hoSuccesses' = 0
  /\ forgotten' = forgotten + failures
  /\ last' = Step("close", 0, state)
  /\ UNCHANGED outsideBreaker
  /\ logged' = {}
  /\ UNCHANGED <<now, requests, lastFailureTime, cfgVars, callVars,
                 invoked, invokedIn, nOk, nErr, timedOut, started, failedOps>>

open ==
  /\ manual < MaxManual
  /\ manual' = manual + 1
  /\ state' = "open"
  /\ nextAttemptTime' = {now + ResetTimeoutMs}
  /\ last' = Step("open", 0, state)
  /\ UNCHANGED outsideBreaker
  /\ logged' = {}
  /\ UNCHANGED <<now, failures, successes, requests, lastFailureTime,
                 recentFailures, cfgVars, callVars,
                 invoked, invokedIn, nOk, nErr, timedOut, started, failLog, hoSuccesses,
                 failedOps, forgotten>>

\* mutant of reset: the circuit is closed as well
resetAndClose ==
  /\ manual < MaxManual
  /\ manual' = manual + 1
  /\ state' = "closed"
  /\ failures' = 0
  /\ successes' = 0
  /\ requests' = 0
  /\ recentFailures' = <<>>
  /\ lastFailureTime' = {}
  /\ nextAttemptTime' = {}
  /\ failLog' = <<>>
  /\ hoSuccesses' = 0
  /\ forgotten' = forgotten + failures
  /\ last' = Step("reset", 0, state)
  /\ UNCHANGED outsideBreaker
  /\ logged' = {}
  /\ UNCHANGED <<now, cfgVars, callVars,
                 invoked, invokedIn, nOk, nErr, timedOut, started, failedOps>>

\* reset(): the statistics are cleared, the state is left as it is
reset ==
  /\ manual < MaxManual
  /\ manual' = manual + 1
  /\ failures' = 0
  /\ successes' = 0
  /\ requests' = 0
  /\ recentFailures' = <<>>
  /\ lastFailureTime' = {}
  /\ nextAttemptTime' = {}
  /\ failLog' = <<>>
  /\ hoSuccesses' = 0
  /\ forgotten' = forgotten + failures
  /\ last' = Step("reset", 0, state)
  /\ UNCHANGED outsideBreaker
  /\ logged' = {}
  /\ UNCHANGED <<now, state, cfgVars, callVars,
                 invoked, invokedIn, nOk, nErr, timedOut, started, failedOps>>

(* ---------------- the clock ---------------- *)
\* Time passes only when the event loop has nothing due: no promise
\* continuation is queued and no timer has reached its time.
NothingDue ==
  \A c \in Calls :
    /\ pc[c] # "settled"
    /\ \A d \in timer[c] : now < d
    /\ \A t \in wakeAt[c] : now < t

Tick ==
  /\ now < MaxTime
  /\ NothingDue
  /\ now' = now + 1
  /\ last' = Step("tick", 0, "-")
  /\ UNCHANGED outsideBreaker
  /\ logged' = {}
  /\ UNCHANGED <<cbVars, cfgVars, callVars, histVars>>

Next ==
  \/ \E c \in Calls, r \in 0..MaxCtxRetries : execute(c, r)
  \/ \E c \in Calls, outcome \in {"ok", "err"} : operationSettles(c, outcome)
  \/ \E c \in Calls : timeoutFires(c)
  \/ \E c \in Calls : onSuccess(c)
  \/ \E c \in Calls : onFailure(c)
  \/ \E c \in Calls : failoverWake(c)
  \/ \E c \in Calls : finish(c)
  \/ Tick

Spec == Init /\ [][Next]_vars

\* the breaker with its manual operations as well
NextManual ==
  \/ Next
  \/ close
  \/ open
  \/ reset

SpecManual == Init /\ [][NextManual]_vars

\* the breaker under every failover configuration, its calls made one after
\* another
InitFailover ==
  /\ InitCB
  /\ InitSel
  /\ InitMgr
  /\ InitQuery
  /\ InitKV
  /\ InitSql
  /\ InitRedis
  /\ InitVec
  /\ InitSec
  /\ InitRate
  /\ InitWarm
  /\ failoverEnabled \in BOOLEAN
  /\ maxRetries \in 0..MaxRetriesBound
  /\ fallbackCache \in BOOLEAN
  /\ fallbackResponse \in BOOLEAN
  /\ degradedMode \in BOOLEAN

NextFailover ==
  \/ \E r \in 0..MaxCtxRetries : execute(1, r)
  \/ \E outcome \in {"ok", "err"} : operationSettles(1, outcome)
  \/ timeoutFires(1)
  \/ onSuccess(1)
  \/ onFailure(1)
  \/ failoverWake(1)
  \/ finish(1)
  \/ Tick

SpecFailover == InitFailover /\ [][NextFailover]_vars

\* the key-value store alone, beside an idle breaker
InitStore ==
  /\ InitKV
  /\ InitSql
  /\ InitRedis
  /\ InitVec
  /\ InitSec
  /\ InitSel
  /\ InitMgr
  /\ InitQuery
  /\ InitRate
  /\ InitWarm
  /\ InitCB
  /\ failoverEnabled = FALSE
  /\ maxRetries = 0
  /\ fallbackCache = TRUE
  /\ fallbackResponse = FALSE
  /\ degradedMode = TRUE

SpecKV == InitStore /\ [][NextKV]_vars

\* the SQLite store alone
SpecSqlite == InitStore /\ [][NextSqlite]_vars

\* the Redis store alone
SpecRedis == InitStore /\ [][NextRedis]_vars

\* the SecureCacheWrapper over the SQLite store
SpecSecure == InitStore /\ [][NextSecure]_vars

\* the semantic cache alone
SpecVec == InitStore /\ [][NextVec]_vars

\* the semantic cache with entries that have several responses or none
SpecVariants == InitStore /\ [][NextVariants]_vars

\* the CircuitBreakerManager and the breakers it holds
SpecManager == InitStore /\ [][NextManager]_vars

\* the routes put and query
SpecQuery == InitStore /\ [][NextQuery]_vars

\* selectVariant alone, called with every input of the model
SpecSelector == InitStore /\ [][NextSelector]_vars

\* the rate limiter alone
SpecRate == InitStore /\ [][NextRate]_vars

\* cache warming alone
SpecWarm == InitStore /\ [][NextWarm]_vars

\* the timers of a warming fire and its callers resume
SpecWarmLive == SpecWarm /\ WF_vars(warmBatch) /\ WF_vars(warmInterval) /\ WF_vars(warmReturn)

\* a command sent to the server is answered, and the call goes on
SpecRedisLive ==
  SpecRedis /\ \A p \in Clients : WF_vars(redisExpire(p) \/ redisScan(p) \/ redisDel(p))

(***************************************************************************)
(* Properties of the circuit breaker                                       *)
(***************************************************************************)

\* failures of the failure history that lie inside the monitoring window at time t
WindowedFailures(t) ==
  Cardinality({i \in 1..Len(failLog) : failLog[i] > t - MonitoringWindowMs})

JustDid(op) == last.op = op
JustDidFrom(op, st) == last.op = op /\ last.from = st

\* C1: a new breaker is closed; a failure recorded while the breaker is
\* closed opens it if and only if the failures of the failure history that
\* lie within the last monitoringWindowMs (this one included) number at
\* least failureThreshold, and then nextAttemptTime = now + resetTimeoutMs;
\* with fewer it stays closed, whatever the lifetime failure count.  The
\* window is the interval (now - monitoringWindowMs, now].
C1_OpensIffWindowedThreshold ==
  /\ JustDid("init") => state = "closed" /\ failures = 0 /\ successes = 0
  /\ JustDidFrom("onFailure", "closed") =>
       /\ state = "open" <=> WindowedFailures(now) >= FailureThreshold
       /\ state = "open" => nextAttemptTime = {now + ResetTimeoutMs}
       /\ state # "open" => state = "closed"

\* the breaker opens on a failure while an older failure of the history has
\* left the window
C1_Witness ==
  /\ JustDidFrom("onFailure", "closed")
  /\ state = "open"
  /\ failures > WindowedFailures(now)

\* C2: an execute() call that starts while the circuit is open and
\* now < nextAttemptTime is rejected, and the wrapped operation is never
\* invoked for that call.
C2_OpenRejectsWithoutInvoking ==
  /\ JustDidFrom("execute", "open") /\ (\E t \in nextAttemptTime : now < t) =>
       result[last.call] = "circuitOpenError"
  /\ \A c \in Calls :
       result[c] = "circuitOpenError" =>
         /\ invoked[c] = 0 /\ opState[c] = "none" /\ promise[c] = "none"
         /\ pc[c] \in {"failover", "done"}

C2_Witness ==
  /\ JustDidFrom("execute", "open")
  /\ \E t \in nextAttemptTime : now < t
  /\ result[last.call] = "circuitOpenError"
  /\ invoked[last.call] = 0

\* C3: a call rejected because the circuit is open never waits before its
\* rejection reaches the caller, whatever the failover configuration.
C3_RejectionDoesNotWait ==
  \A c \in Calls : result[c] = "circuitOpenError" => pc[c] # "failover"

\* C4: when the circuit is open and now >= nextAttemptTime, the next
\* execute() call makes it half-open with the success count restarted at 0
\* before the operation is invoked, and the operation is invoked for it.
C4_ResetAttemptGoesHalfOpen ==
  JustDidFrom("execute", "open") /\ (\E t \in nextAttemptTime : now >= t) =>
    /\ state = "half-open"
    /\ successes = 0
    /\ invoked[last.call] = 1
    /\ invokedIn[last.call] = "half-open"
    /\ pc[last.call] = "running" /\ opState[last.call] = "running"

C4_Witness ==
  /\ JustDidFrom("execute", "open")
  /\ state = "half-open"
  /\ invokedIn[last.call] = "half-open"

\* C5: a success recorded in half-open closes the breaker exactly when the
\* successes recorded since it became half-open reach successThreshold, and
\* then the failure history is empty (failures = 0, no windowed failure);
\* with fewer successes it remains half-open.
C5_ClosesAtSuccessThreshold ==
  JustDidFrom("onSuccess", "half-open") =>
    /\ state = "closed" <=> hoSuccesses >= SuccessThreshold
    /\ state = "closed" => failures = 0 /\ recentFailures = <<>>
    /\ state # "closed" => state = "half-open"

C5_Witness ==
  /\ JustDidFrom("onSuccess", "half-open")
  /\ state = "closed"
  /\ hoSuccesses = SuccessThreshold

\* C6: a failure recorded in half-open reopens the breaker at once, with
\* nextAttemptTime = now + resetTimeoutMs, however many half-open successes
\* came before it.
C6_HalfOpenFailureReopens ==
  JustDidFrom("onFailure", "half-open") =>
    /\ state = "open"
    /\ nextAttemptTime = {now + ResetTimeoutMs}

C6_Witness ==
  /\ JustDidFrom("onFailure", "half-open")
  /\ hoSuccesses >= 1
  /\ state = "open"

\* C7: for every call whose operation was invoked exactly one outcome is
\* recorded, one success or one failure, also when the operation settles
\* after the timeout has fired or in the same instant.
C7_ExactlyOneOutcome ==
  \A c \in Calls :
    /\ nOk[c] + nErr[c] <= 1
    /\ invoked[c] = 0 => nOk[c] + nErr[c] = 0
    /\ invoked[c] = 1 /\ pc[c] \in {"failover", "done"} => nOk[c] + nErr[c] = 1
    /\ invoked[c] = 1 /\ pc[c] \in {"running", "settled"} => nOk[c] + nErr[c] = 0

\* the operation resolved after its timeout had fired, and the call ended
\* with the one failure
C7_Witness ==
  \E c \in Calls :
    /\ timedOut[c] /\ opState[c] = "ok"
    /\ pc[c] = "done"
    /\ nErr[c] = 1 /\ nOk[c] = 0

\* C8: when the timeout elapses with the operation unsettled, execute()
\* rejects with the timeout error and the call is recorded as a failure:
\* failures + 1, the failure is in the monitoring window, and it opens or
\* reopens the circuit as any failure does, whatever the operation does later.
C8_TimeoutIsAFailure ==
  /\ [](\A c \in Calls :
          /\ pc[c] = "running" => \A d \in timer[c] : now <= d
          /\ timedOut[c] /\ pc[c] \in {"failover", "done"} =>
               result[c] = "timeoutError" /\ nErr[c] = 1 /\ nOk[c] = 0)
  /\ [][\A c \in Calls :
          timedOut[c] /\ pc[c] = "settled" /\ pc'[c] # "settled" =>
            /\ failures' = failures + 1
            /\ result'[c] = "timeoutError"
            /\ Len(recentFailures') >= 1
            /\ recentFailures'[Len(recentFailures')] = now
            /\ state = "half-open" => state' = "open"
            /\ state = "closed" /\ Len(recentFailures') >= FailureThreshold =>
                 state' = "open"]_vars

\* the call timed out, the operation then rejected or resolved, and the
\* timeout error stands
C8_Witness ==
  \E c \in Calls :
    /\ timedOut[c] /\ opState[c] \in {"ok", "err"}
    /\ pc[c] = "done"
    /\ result[c] = "timeoutError"
    /\ state = "open"

\* C9: a failed execution with failover enabled is retried up to maxRetries
\* times before the failure reaches the caller: when it does, the operation
\* has been invoked once plus the retries that context.retries left.
C9_RetriesBeforeSurfacing ==
  \A c \in Calls :
    pc[c] = "done" /\ result[c] \in {"operationError", "timeoutError"} /\ failoverEnabled =>
      invoked[c] = 1 + (IF ctxRetries[c] < maxRetries THEN maxRetries - ctxRetries[c] ELSE 0)

(***************************************************************************)
(* Properties of the in-memory key-value store                             *)
(***************************************************************************)

\* what get(k) has to return at time t: the value of the latest set of k that
\* no clear followed, while t is before that set's time + ttl seconds or the
\* set gave no TTL; null otherwise
ExpectedGet(k, t) ==
  IF \E r \in memLastSet[k] : r.ttl = {} \/ \E n \in r.ttl : t < r.at + n * MsPerSecond
    THEN (CHOOSE r \in memLastSet[k] : TRUE).value
    ELSE "null"

\* C10: after any sequence of set/get/clear with the clock advancing, get(k)
\* returns the value of the most recent set(k, v, t) when no clear followed
\* it and now is before that set's time + t seconds (or it gave no TTL), and
\* null otherwise; it never returns a value whose expiry has passed.
C10_GetReturnsLiveLatestSet ==
  kvLast.op = "get" =>
    /\ memGot = ExpectedGet(kvLast.key, kvNow)
    /\ memGot # "null" =>
         \A e \in memStore[kvLast.key] : memGot = e.value /\ ~(\E x \in e.expiresAt : x <= kvNow)

\* a get at the very instant the TTL of the latest set ends returns null
C10_Witness ==
  /\ kvLast.op = "get"
  /\ memGot = "null"
  /\ \E r \in memLastSet[kvLast.key] : \E n \in r.ttl : n > 0 /\ kvNow = r.at + n * MsPerSecond

(***************************************************************************)
(* Properties of the key-value backends                                    *)
(***************************************************************************)

\* C11: in every backend, after set(k, v, t) with a numeric t >= 0 at time s,
\* a get(k) at any time now >= s + t seconds returns null: the value is not
\* served at the very instant of its expiry, and t = 0 makes it expired at
\* once.
C11_NullFromExpiryOn ==
  kvLast.op = "get" =>
    \A r \in memLastSet[kvLast.key] : \A n \in r.ttl :
      (n >= 0 /\ kvNow >= r.at + n * MsPerSecond) => memGot = "null"

\* C12: in every store, the vector cache's set included, a set on a key that
\* exists replaces the value and the expiry: the entry written last is there
\* as long as its own TTL allows, and for good when it was written without
\* one; the TTL of an earlier set never removes it.
C12_LaterSetKeepsItsOwnExpiry ==
  \A key \in VecKeys : \A r \in vecLastSet[key] :
    (r.ttl = {} \/ \E n \in r.ttl : n > 0 /\ kvNow < r.at + n * MsPerSecond)
      => MapGet(vecEntries, key) = {r.value}

\* the finished set calls on key k that no clear() followed
FinishedSets(k) == UNION {rDone[p][k] : p \in Clients}

\* C16: when set calls on one key have run concurrently on the networked
\* backend, one of them with a TTL, the value and the expiry the key ends with
\* are those of one of the calls, never the value of one with the expiry of
\* another.
C16_ValueAndExpiryOfOneCall ==
  (\A p \in Clients : rpc[p].at = "idle") =>
    \A k \in Keys :
      ( /\ redisDb[withPrefix(k)] # {}
        /\ FinishedSets(k) # {}
        /\ \A d \in FinishedSets(k) : \A n \in d.ttl : n > 0 )
      => \E d \in FinishedSets(k) :
           redisDb[withPrefix(k)] = {[value |-> JSONstringify(d.value), expireAt |-> d.exp]}

\* C17: clear() on the Redis backend ends; when no SET ran on the server
\* while it was running, no key under the prefix is left once it has
\* returned; and a key that does not start with the prefix is never touched.
C17_ClearEmptiesThePrefixOnly ==
  /\ [](kvLast.op = "cleared" =>
          (rDirty[kvLast.by] \/ \A k \in Keys : redisDb[withPrefix(k)] = {}))
  /\ [](redisDb[ForeignKey] = ForeignEntry)
  /\ \A p \in Clients : (rpc[p].at \in {"scan", "del"}) ~> (rpc[p].at = "idle")

\* a clear() that no SET crossed has returned after deleting both keys
C17_Witness ==
  /\ kvLast.op = "cleared"
  /\ kvLast.gone = 2
  /\ ~rDirty[kvLast.by]

(***************************************************************************)
(* Properties of the SecureCacheWrapper                                    *)
(***************************************************************************)

\* the entry of set r is there at time t and its TTL has not run out
BeforeExpiry(r, t) == r.ttl = {} \/ \E n \in r.ttl : t < r.at + n * MsPerSecond

\* C13: set(k, v) followed by get(k) under the same key configuration, with
\* a key and with none, returns a value equal to v; and the read takes a
\* clear-text envelope for one and an encrypted envelope for the other, never
\* one for the other.
C13_RoundTripUnderSameKey ==
  secOut.op = "get" =>
    \A r \in secLastSet[secOut.key] :
      (BeforeExpiry(r, kvNow) /\ r.key = secKey) =>
        /\ secOut.kind = "value"
        /\ secOut.value = r.value
        /\ secOut.path = IF r.key = {} THEN "clear" ELSE "cipher"

\* with no key configured, an object that itself has the members _v and
\* clear came back whole
C13_Witness ==
  /\ secOut.op = "get" /\ secOut.kind = "value" /\ secOut.path = "clear"
  /\ secKey = {}
  /\ hasMember(secOut.value, "clear")
  /\ \E r \in secLastSet[secOut.key] : r.key = {} /\ r.value = secOut.value

\* C14 as stated: get(k) returns the value last set for k whatever the key
\* configuration was at write time and is at read time.
C14_ReadableUnderAnyKeyConfiguration ==
  secOut.op = "get" =>
    \A r \in secLastSet[secOut.key] :
      BeforeExpiry(r, kvNow) => (secOut.kind = "value" /\ secOut.value = r.value)

\* C14, amended: get(k) returns the value last set for k when it was written
\* with no key configured, whatever the configuration is at read time, or
\* when the key configured at read time is the one it was written with.
C14_ReadableWhenClearOrSameKey ==
  secOut.op = "get" =>
    \A r \in secLastSet[secOut.key] :
      (BeforeExpiry(r, kvNow) /\ (r.key = {} \/ r.key = secKey)) =>
        (secOut.kind = "value" /\ secOut.value = r.value)

\* an entry written with no key is read after encryption was turned on
C14_Witness ==
  /\ secOut.op = "get" /\ secOut.kind = "value"
  /\ secKey # {}
  /\ \E r \in secLastSet[secOut.key] : r.key = {} /\ r.value = secOut.value

\* C15: get raises an error when a payload is stored under the key and cannot
\* be decrypted or decoded (an encrypted payload read with no key or with
\* another key, a cut or damaged envelope); it returns null only when the
\* key is absent or expired in the wrapped store.
C15_ErrorNotNullWhenUndecodable ==
  secOut.op = "get" =>
    /\ secOut.kind = "null" => secOut.was \in {"absent", "expired"}
    /\ \A r \in secLastSet[secOut.key] :
         (secOut.was = "live" /\ r.key # {} /\ r.key # secKey) => secOut.kind = "error"

(***************************************************************************)
(* Properties of the semantic cache                                        *)
(***************************************************************************)

\* C18: storeLLMResponse upserts by the normalized query.  While the entries
\* held are those storeLLMResponse put, no two of them have queries that
\* differ only in case or surrounding whitespace; getResponses of any spelling
\* returns the entry stored last under that normalized query, whole; and a
\* search returns at most one match per normalized query.
C18_UpsertByNormalizedQuery ==
  vecViaStore =>
    /\ \A i, j \in 1..Len(vecEntries) :
         Normalized(vecEntries[i][2].query) = Normalized(vecEntries[j][2].query) => i = j
    /\ vecOut.op = "getResponses" =>
         vecOut.found = {r.entry : r \in vecLatest[Normalized(vecOut.query)]}
    /\ vecOut.op = "search" =>
         \A i, j \in 1..Len(vecOut.matches) :
           Normalized(vecOut.matches[i].entry.query) = Normalized(vecOut.matches[j].entry.query)
             => i = j

\* getResponses, asked with one spelling, returns e2 stored under another
\* spelling, which replaced an e1 of a third spelling or another embedding
C18_Witness ==
  /\ vecViaStore
  /\ vecOut.op = "getResponses"
  /\ \E r \in vecLatest[Normalized(vecOut.query)] :
       /\ vecOut.found = {r.entry}
       /\ r.entry.query # vecOut.query
       /\ \E e1 \in r.replaced : e1.query # r.entry.query /\ e1 # r.entry

\* sim >= thr
AtLeast(sim, thr) == RootGeq(thr[2] * sim.num, 1, thr[1], sim.den)
\* sim1 >= sim2
NotBelow(sim1, sim2) == RootGeq(sim1.num, sim2.den, sim2.num, sim1.den)
\* the stored embeddings a search with the arguments of vecOut has to match
Qualifying ==
  {i \in 1..Len(vecEmbeddings) :
     /\ Len(vecEmbeddings[i][2]) = Len(vecOut.vector)
     /\ AtLeast(Quotient(vecOut.vector, vecEmbeddings[i][2]), vecOut.threshold)}

\* C19: the matches of searchSimilar are entries whose cosine similarity with
\* the query embedding is >= the threshold, each once and with that
\* similarity as its score, in non-increasing order of score, the
\* min(limit, n) best of the n qualifying entries; total_matches is n.
C19_MatchesAreTheBestQualifying ==
  (vecOut.op = "search" /\ ~vecOut.err) =>
    LET m == vecOut.matches
        n == Cardinality(Qualifying)
    IN /\ vecOut.total_matches = n
       /\ Len(m) = IF vecOut.limit < n THEN vecOut.limit ELSE n
       /\ \A i \in 1..Len(m) : \E j \in Qualifying :
            /\ m[i].key = vecEmbeddings[j][1]
            /\ MapGet(vecEntries, m[i].key) = {m[i].entry}
            /\ m[i].similarity_score = Quotient(vecOut.vector, vecEmbeddings[j][2])
       /\ \A i, j \in 1..Len(m) :
            i < j => /\ m[i].key # m[j].key
                     /\ NotBelow(m[i].similarity_score, m[j].similarity_score)
       /\ \A j \in Qualifying :
            (\A i \in 1..Len(m) : m[i].key # vecEmbeddings[j][1]) =>
              \A i \in 1..Len(m) :
                NotBelow(m[i].similarity_score, Quotient(vecOut.vector, vecEmbeddings[j][2]))

\* two entries qualify, with different scores, and the limit keeps the better
C19_Witness ==
  /\ vecOut.op = "search" /\ ~vecOut.err
  /\ vecOut.total_matches = 2
  /\ Len(vecOut.matches) = 1
  /\ \E j \in Qualifying :
       ~NotBelow(Quotient(vecOut.vector, vecEmbeddings[j][2]), vecOut.matches[1].similarity_score)

\* C20: searchSimilar raises the dimension error exactly when a stored
\* embedding has another length than the query embedding; it then returns no
\* match; and no search, failed or not, changes the cache.
C20_DimensionErrorNoResultNoChange ==
  /\ [](vecOut.op = "search" =>
          /\ vecOut.err <=> \E i \in 1..Len(vecEmbeddings) :
                               Len(vecEmbeddings[i][2]) # Len(vecOut.vector)
          /\ vecOut.err => vecOut.matches = <<>> /\ vecOut.total_matches = 0)
  /\ [][(vecOut'.op = "search" /\ vecCalls' # vecCalls)
          => UNCHANGED <<vecEntries, vecEmbeddings>>]_vars

\* the search failed although one of the two stored embeddings has the
\* length of the query embedding
C20_Witness ==
  /\ vecOut.op = "search" /\ vecOut.err
  /\ Len(vecEmbeddings) = 2
  /\ \E i \in 1..2 : Len(vecEmbeddings[i][2]) = Len(vecOut.vector)

(***************************************************************************)
(* The variant selector                                                    *)
(***************************************************************************)
\* what the call just made was given and gave
SelN == Len(selIn.input.variants)
SelWeighted == selIn.input.strategy = {"weighted"} /\ SelN > 0
SelAligned == \E list \in selIn.input.weights : Len(list) = SelN
SelWeights == CHOOSE list \in selIn.input.weights : TRUE

\* C23: with the round-robin strategy the chosen index is the counter value
\* the provider supplied modulo the number of candidates, whatever was called
\* before; so over consecutive counter values fewer than n calls apart no
\* candidate is chosen twice: n calls in a row choose each candidate once, two
\* calls in a row differ when n >= 2.
C23_RoundRobinIsCounterModuloN ==
  /\ (selIn.input.strategy = {"round-robin"} /\ SelN > 0) =>
       /\ \A c \in selIn.provided : selOut.index = c % SelN
       /\ selIn.provided = {} => selOut.index = 0
  /\ LET n == Len(selTrail.variants)
         picks == selTrail.picks
     IN /\ \A i \in 1..Len(picks) : picks[i] \in 0..(n - 1)
        /\ \A i, j \in 1..Len(picks) : (i < j /\ j - i < n) => picks[i] # picks[j]

\* three calls in a row over three candidates were answered
C23_Witness ==
  /\ Len(selTrail.variants) = 3
  /\ Len(selTrail.picks) = 3
  /\ selIn.input.strategy = {"round-robin"}
  /\ selIn.provided # {}

\* the sum of the first i of the weights ws
RECURSIVE Cumulative(_, _)
Cumulative(ws, i) == IF i = 0 THEN 0 ELSE Cumulative(ws, i - 1) + ws[i]

\* the index of the first of the weights ws whose cumulative weight exceeds
\* the draw rnd / RandomDen of [0, 1) scaled to [0, total)
FirstAbove(ws, rnd) ==
  LET above == {i \in 1..Len(ws) :
                  Cumulative(ws, i) * RandomDen > rnd * Cumulative(ws, Len(ws))}
  IN (CHOOSE i \in above : \A j \in above : i <= j) - 1

\* C24: with weights aligned to the candidates, none of them negative and
\* not all 0, the chosen index is the smallest i whose cumulative weight
\* w_0 + ... + w_i is strictly greater than the draw r of [0, totalWeight).
C24_FirstCumulativeAboveDraw ==
  (/\ SelWeighted /\ SelAligned
   /\ \A i \in 1..SelN : \E k \in SelWeights[i] : k >= 0
   /\ \E i \in 1..SelN : \E k \in SelWeights[i] : k > 0)
    => selOut.index = FirstAbove([i \in 1..SelN |-> CHOOSE k \in SelWeights[i] : TRUE],
                                 selIn.rnd)

\* the weights the candidates have when a weight that is missing or not
\* positive counts 1
DefaultedToOne ==
  [i \in 1..SelN |->
     IF \E list \in selIn.input.weights : i <= Len(list) /\ \E k \in list[i] : k > 0
       THEN CHOOSE k \in SelWeights[i] : TRUE
       ELSE 1]

WithWeights(list) ==
  selectVariant([selIn.input EXCEPT !.weights = {list}], selIn.rnd, selIn.provided)

C26_SelectionIsACandidate ==
  IF SelN = 0 THEN selOut.null
  ELSE /\ ~selOut.null
       /\ selOut.index \in 0..(SelN - 1)
       /\ selOut.variant = {selIn.input.variants[selOut.index + 1]}
       /\ selIn.input.strategy \in {{}, {"other"}} =>
            selOut = selectVariant([selIn.input EXCEPT !.strategy = {"random"}],
                                   selIn.rnd, selIn.provided)

\* the last of three candidates was chosen by the largest draw under a
\* strategy the selector does not know
C26_Witness ==
  /\ SelN = 3
  /\ selIn.input.strategy = {"other"}
  /\ selIn.rnd = RandomDen - 1
  /\ selOut.variant = {"c"}

(***************************************************************************)
(* The semantic cache: the response selected for a match                   *)
(***************************************************************************)
\* C21: searchSimilar returns no match for an entry whose responses list is
\* empty, also when its embedding reaches the similarity threshold.
C21_NoMatchWithoutResponses ==
  vecOut.op = "search" =>
    \A i \in 1..Len(vecOut.matches) : vecOut.matches[i].entry.responses # <<>>

\* the entries held that have the deterministic strategy and a seed
Seeded(key) ==
  {e \in MapGet(vecEntries, key) :
     e.variant_strategy = {"deterministic"} /\ seedOr(e.seed, <<>>) = e.seed}

\* C22: searches of an unchanged cache select the same response of an entry
\* stored with the deterministic strategy and a seed every time they return
\* it, whatever they ask and whatever Math.random() gives; and what is
\* selected depends on the responses and the seed only: entries with the same
\* responses and the same seed have the same response selected.
C22_DeterministicSelectionIsStable ==
  \A k1, k2 \in VecKeys : \A e1 \in Seeded(k1), e2 \in Seeded(k2) :
    (e1.responses = e2.responses /\ e1.seed = e2.seed) =>
      \A i \in 1..Len(vecServed[k1]), j \in 1..Len(vecServed[k2]) :
        vecServed[k1][i] = vecServed[k2][j]

\* two searches in a row returned the third of the three responses of an
\* entry with the deterministic strategy and a seed
C22_Witness ==
  \E key \in VecKeys : \E e \in Seeded(key) :
    /\ Len(e.responses) = 3
    /\ vecServed[key] = <<{"r3"}, {"r3"}>>

\* C28: a get(key) or getResponses(query) that finds an entry sets the
\* last_accessed of that entry to the time of the read.
C28_ReadSetsLastAccessed ==
  (vecOut.op \in {"get", "getResponses"} /\ vecOut.found # {}) =>
    \A e \in MapGet(vecEntries, vecOut.key) : e.last_accessed = kvNow

\* C29: the searches that return an entry stored with the round-robin
\* strategy and n >= 2 responses cycle through its responses: fewer than n
\* searches apart no response is selected twice.
C29_SearchCyclesThroughResponses ==
  \A key \in VecKeys : \A e \in MapGet(vecEntries, key) :
    (e.variant_strategy = {"round-robin"} /\ Len(e.responses) >= 2) =>
      \A i, j \in 1..Len(vecServed[key]) :
        (i < j /\ j - i < Len(e.responses)) => vecServed[key][i] # vecServed[key][j]

(***************************************************************************)
(* The CircuitBreakerManager                                               *)
(***************************************************************************)
\* the states of the breakers the manager holds
HeldStates == {b.state : b \in UNION {mgrBreakers[name] : name \in Names}}

\* C27: getHealthStatus returns overall critical if a breaker is open,
\* otherwise degraded if a breaker is half-open, otherwise healthy, also with
\* no breaker; and for each breaker, and nothing else, its state and the
\* status critical, degraded or healthy for open, half-open or closed.
C27_HealthFollowsTheWorstBreaker ==
  mgrLast = "getHealthStatus" =>
    /\ mgrHealth.overall = IF "open" \in HeldStates THEN "critical"
                           ELSE IF "half-open" \in HeldStates THEN "degraded"
                           ELSE "healthy"
    /\ \A name \in Names :
         /\ mgrBreakers[name] = {} <=> mgrHealth.services[name] = {}
         /\ \A b \in mgrBreakers[name] : \A h \in mgrHealth.services[name] :
              /\ h.state = b.state
              /\ h.status = CASE b.state = "open" -> "critical"
                               [] b.state = "half-open" -> "degraded"
                               [] b.state = "closed" -> "healthy"

\* the status was asked for with one breaker open and the other half-open
C27_Witness ==
  /\ mgrLast = "getHealthStatus"
  /\ HeldStates = {"open", "half-open"}
  /\ mgrHealth.overall = "critical"

(***************************************************************************)
(* The query route                                                         *)
(***************************************************************************)
\* C30: the queries of a key whose stored value holds n variants and the
\* round-robin strategy are answered with its variants in cyclic order: each
\* answer is the variant after the one the query before it got, whatever
\* queries of other keys come between and whichever counter is in use.
C30_QueriesCycleThroughVariants ==
  \A key \in RouteKeys : \A v \in qryStore[key] : \A list \in v.variants :
    \A i \in 1..(Len(qryServed[key]) - 1) :
      qryServed[key][i + 1] = (qryServed[key][i] + 1) % Len(list)

(***************************************************************************)
(* Properties of the circuit breaker with its manual operations            *)
(***************************************************************************)
\* C31: right after reset() the counters failures, successes and requests
\* are 0 and the failure window is empty, and the circuit state is the one
\* before the call.
C31_ResetClearsCountersKeepsState ==
  last.op = "reset" =>
    /\ failures = 0 /\ successes = 0 /\ requests = 0
    /\ recentFailures = <<>>
    /\ state = last.from

\* reset() was called on an open circuit that had counted failures
C31_Witness ==
  /\ last.op = "reset"
  /\ last.from = "open"
  /\ started >= FailureThreshold

\* C36: in every state reachable through execute(), open(), close() and
\* reset(), an open circuit has its nextAttemptTime set.
C36_OpenHasNextAttemptTime ==
  state = "open" => nextAttemptTime # {}

\* C37: in every state reachable through execute(), open(), close() and
\* reset(), calls in flight included, failures <= requests.
C37_FailuresAtMostRequests ==
  failures <= requests

\* C38: an execute() call rejected because the circuit is open adds one to
\* requests and leaves state, failures, successes, the failure window,
\* lastFailureTime and nextAttemptTime as they are, in the step that
\* rejects it and in the steps that end it.
C38_RejectedCallOnlyCountsTheRequest ==
  [][\A c \in Calls :
       /\ (pc[c] = "idle" /\ pc'[c] # "idle" /\ result'[c] = "circuitOpenError") =>
            /\ requests' = requests + 1
            /\ UNCHANGED <<state, failures, successes, recentFailures, lastFailureTime,
                           nextAttemptTime>>
       /\ (result[c] = "circuitOpenError" /\ pc'[c] # pc[c]) => UNCHANGED cbVars]_vars

\* a call was rejected some time after the circuit opened, when part of the
\* reset timeout had passed, and waits in handleFailover
C38_Witness ==
  /\ last.op = "execute"
  /\ result[last.call] = "circuitOpenError"
  /\ pc[last.call] = "failover"
  /\ requests = FailureThreshold + 1
  /\ \E t \in nextAttemptTime : now < t /\ t < now + ResetTimeoutMs

\* C35: a circuit that is open or half-open becomes closed by a success
\* only when it is half-open and the operation that succeeded was admitted
\* while it was half-open; the success of an operation started in another
\* state closes nothing and does not add to the successes counted toward
\* successThreshold.
C35_OnlyHalfOpenTrialsClose ==
  [][\A c \in Calls :
       (pc[c] = "settled" /\ promise[c] = "resolved" /\ pc'[c] = "done"
          /\ state # "closed") =>
         /\ state' = "closed" => state = "half-open" /\ invokedIn[c] = "half-open"
         /\ invokedIn[c] # "half-open" => successes' = successes]_vars

(***************************************************************************)
(* Properties of the breaker's counters                                    *)
(***************************************************************************)
\* operations whose promise has rejected and whose onFailure has not run yet
AwaitingOnFailure ==
  Cardinality({c \in Calls : pc[c] = "settled"
                              /\ promise[c] \in {"rejectedOp", "rejectedTimeout"}})

\* C32 as stated: with execute() calls in flight at once and no close() or
\* reset(), requests is the number of execute() calls started and failures
\* is the number of invoked operations that ended in an error or a timeout.
C32_CountersAreTotals ==
  /\ requests = started
  /\ failures + AwaitingOnFailure = failedOps

\* C32 amended: requests is the number of execute() calls started, and
\* failures is the number of invoked operations that ended in an error or a
\* timeout less those the counter held when the circuit returned to closed,
\* which sets it to 0.
C32_CountersLoseNoUpdate ==
  /\ requests = started
  /\ failures + AwaitingOnFailure + forgotten = failedOps

\* an operation has failed and was counted after the circuit had returned to
\* closed and set a count of failureThreshold failures to 0, two of the
\* operations having been in flight at once
C32_Witness ==
  /\ last.op = "onFailure"
  /\ forgotten = FailureThreshold
  /\ failures = 1
  /\ failedOps = FailureThreshold + 1
  /\ \E c \in Calls : c # last.call /\ pc[c] # "idle"

(***************************************************************************)
(* Properties of the outcome of execute()                                  *)
(***************************************************************************)
\* C39: under every failover configuration execute() resolves only with
\* the value the operation returned, and otherwise rejects with the error
\* of the operation, the timeout error or the circuit-open error; it never
\* ends with anything else, whatever handleFailover logged.
C39_OutcomeIsTheOperationsOwn ==
  \A c \in Calls :
    pc[c] \in {"done", "failover"} =>
      /\ result[c] \in {"value", "operationError", "timeoutError", "circuitOpenError"}
      /\ result[c] = "value" <=> promise[c] = "resolved"
      /\ result[c] = "operationError" <=> promise[c] = "rejectedOp"
      /\ result[c] = "timeoutError" <=> promise[c] = "rejectedTimeout"
      /\ result[c] = "circuitOpenError" <=> invoked[c] = 0

\* the operation failed with the retries exhausted and handleFailover logged
\* the three fallbacks, all configured; the caller gets the operation's error
C39_Witness ==
  /\ last.op = "onFailure"
  /\ logged = {"cache", "response", "degraded"}
  /\ pc[last.call] = "done"
  /\ result[last.call] = "operationError"

(***************************************************************************)
(* Properties of the SecureCacheWrapper: authenticity                      *)
(***************************************************************************)
\* C40: with an encryption key configured, a get that returns a value
\* returns the value of the latest set of the key made through the wrapper,
\* no other writer having written the row since: what a writer without the
\* encryption key puts in the wrapped store is never returned as a value.
C40_GetReturnsOnlyWhatSetWrote ==
  (secOut.op = "get" /\ secKey # {} /\ secOut.kind = "value") =>
    \E w \in secLastSet[secOut.key] : w.value = secOut.value

(***************************************************************************)
(* Properties of the rate limiter                                          *)
(***************************************************************************)
\* C33: for one identity, every interval of RateWindowMs milliseconds holds
\* at most RateMax admitted requests (checked for the interval that ends at
\* the present instant).
C33_AtMostMaxInEveryWindow ==
  \A key \in RateKeys :
    Cardinality({i \in 1..Len(admitted[key]) : admitted[key][i] > rateNow - RateWindowMs})
      <= RateMax

(***************************************************************************)
(* Cache warming                                                           *)
(***************************************************************************)
\* C34: every accepted startCacheWarming call eventually finishes: the
\* progress gets status completed with progress 100, or error, and the
\* in-progress flag is released, so that a later call is accepted.
C34_AcceptedWarmingFinishes ==
  isWarming ~> (/\ ~isWarming
                /\ \A p \in warmingProgress :
                     \/ p.status = "completed" /\ p.progress = <<Percent, 1>>
                     \/ p.status = "error")

====
